---- MODULE Spec2Model ----
(***************************************************************************)
(* Model of the inference service of the crop-advisory backend:            *)
(* fastapi-backend/services/ml_service.py (MLService) and the route        *)
(* handlers of fastapi-backend/main.py that use it.                        *)
(*                                                                         *)
(* Numbers.  Temperatures (degrees C), rainfall (mm), areas (hectares)     *)
(* and soil values are integers.  Factors are kept in hundredths, rule     *)
(* based yields in millionths of a quintal/hectare before rounding, the    *)
(* raw model output in hundredths of a hectogram/hectare, and every        *)
(* reported yield or production in hundredths of a quintal.  Python's      *)
(* round(x, 2) is RoundDiv, round-half-even on the exact decimal value.    *)
(*                                                                         *)
(* Strings that the code inspects (crop and state names) are sequences of  *)
(* one-character strings, so that str.lower(), the "in" substring test     *)
(* and list.index() are computed and not assumed.                          *)
(***************************************************************************)
EXTENDS Integers, Sequences, FiniteSets, TLC

\* ------------------------------------------------------------------------
\* Bounds of the model
\* ------------------------------------------------------------------------
MaxInFlight == 2
\* the largest number of crop labels of a crop classifier
MaxClasses == 4

\* the largest number of uploads of crop data
MaxUploads == 2

\* the largest number of coroutines that call get_database
MaxCallers == 3

\* the largest number of predictions one process of the optimized predictor
\* makes
MaxCalls == 3

\* ------------------------------------------------------------------------
\* Strings
\* ------------------------------------------------------------------------
Rice == <<"R", "i", "c", "e">>
Maize == <<"M", "a", "i", "z", "e">>
SweetCorn == <<"S", "w", "e", "e", "t", " ", "C", "o", "r", "n">>
Banana == <<"B", "a", "n", "a", "n", "a">>
Punjab == <<"P", "u", "n", "j", "a", "b">>
Bihar == <<"B", "i", "h", "a", "r">>
Atlantis == <<"A", "t", "l", "a", "n", "t", "i", "s">>
NoneStr == <<"N", "o", "n", "e">>
abc == <<"a", "b", "c">>
s25 == <<"2", "5">>
rice == <<"r", "i", "c", "e">>
wheat == <<"w", "h", "e", "a", "t">>
maize == <<"m", "a", "i", "z", "e">>
corn == <<"c", "o", "r", "n">>

Upper == <<"A", "B", "C", "D", "E", "F", "G", "H", "I", "J", "K", "L", "M",
           "N", "O", "P", "Q", "R", "S", "T", "U", "V", "W", "X", "Y", "Z">>
LowerCase == <<"a", "b", "c", "d", "e", "f", "g", "h", "i", "j", "k", "l", "m",
           "n", "o", "p", "q", "r", "s", "t", "u", "v", "w", "x", "y", "z">>
Digits == <<"0", "1", "2", "3", "4", "5", "6", "7", "8", "9">>

\* position of x in the sequence seq, 0 when absent
PosIn(seq, x) ==
    IF \E i \in 1..Len(seq) : seq[i] = x
    THEN CHOOSE i \in 1..Len(seq) : seq[i] = x /\ \A j \in 1..(i - 1) : seq[j] # x
    ELSE 0

\* str.lower()
Lower(s) ==
    [i \in 1..Len(s) |-> IF PosIn(Upper, s[i]) > 0 THEN LowerCase[PosIn(Upper, s[i])] ELSE s[i]]

\* Python's  sub in s  on strings
Contains(s, sub) ==
    \E i \in 1..(Len(s) - Len(sub) + 1) : SubSeq(s, i, i + Len(sub) - 1) = sub

\* Python's  x in lst
InList(lst, x) == \E i \in 1..Len(lst) : lst[i] = x

\* Python's  lst.index(x)  (0-based), for x in lst
ListIndex(lst, x) == PosIn(lst, x) - 1

RECURSIVE NatToStr(_)
NatToStr(n) == IF n < 10 THEN <<Digits[n + 1]>> ELSE NatToStr(n \div 10) \o <<Digits[(n % 10) + 1]>>

IntToStr(n) == IF n < 0 THEN <<"-">> \o NatToStr(0 - n) ELSE NatToStr(n)

RECURSIVE DigitsToNat(_)
DigitsToNat(s) ==
    IF Len(s) = 0 THEN 0
    ELSE 10 * DigitsToNat(SubSeq(s, 1, Len(s) - 1)) + (PosIn(Digits, s[Len(s)]) - 1)

IsDigits(s) == Len(s) > 0 /\ \A i \in 1..Len(s) : PosIn(Digits, s[i]) > 0

\* ------------------------------------------------------------------------
\* Loosely typed values of a request dict
\* ------------------------------------------------------------------------
Num(n) == [t |-> "num", n |-> n, s |-> <<>>]
Str(s) == [t |-> "str", n |-> 0, s |-> s]
NoneV == [t |-> "none", n |-> 0, s |-> <<>>]
Missing == [t |-> "missing", n |-> 0, s |-> <<>>]

\* dict.get(key, default)
Get(d, key, default) == IF d[key].t = "missing" THEN default ELSE d[key]

Raise == [exc |-> TRUE, v |-> 0]
Ok(x) == [exc |-> FALSE, v |-> x]

\* float(v): numbers pass, strings of digits (with an optional sign) parse,
\* any other string raises ValueError and None raises TypeError
PyFloat(v) ==
    CASE v.t = "num" -> Ok(v.n)
      [] v.t = "str" ->
            IF IsDigits(v.s) THEN Ok(DigitsToNat(v.s))
            ELSE IF Len(v.s) > 1 /\ v.s[1] = "-" /\ IsDigits(Tail(v.s))
                 THEN Ok(0 - DigitsToNat(Tail(v.s)))
                 ELSE Raise
      [] OTHER -> Raise

\* str(v)
PyStr(v) ==
    CASE v.t = "num" -> IntToStr(v.n)
      [] v.t = "str" -> v.s
      [] OTHER -> NoneStr

\* round-half-even of x / d, d > 0  (Python's round on an exact decimal)
RoundDiv(x, d) ==
    LET q == x \div d
        r == x % d
    IN  IF 2 * r < d THEN q
        ELSE IF 2 * r > d THEN q + 1
        ELSE IF q % 2 = 0 THEN q ELSE q + 1

\* ------------------------------------------------------------------------
\* State
\* ------------------------------------------------------------------------
VARIABLES
    phase,        \* position of lifespan: "starting", "serving", "startup_failed"
    database,     \* database/mongodb.py global  database
    files,        \* the model artifact files on disk
    ml_service,   \* the MLService singleton of main.py
    loaded_from,  \* history: the files as _load_models found them
    hash_seed,    \* the process's string-hash randomisation
    reqs,         \* the requests in flight: received, not yet handled
    response,     \* the request handled last, with its response
    call,         \* a direct call of MLService._predict_yield_ml
    crop_files,   \* RF.pkl and the dataset in the models directory
    crop_service, \* a CropRecommendationService object
    rec,          \* a direct call of a recommend_crop method
    environ,      \* the environment variable OPENROUTER_API_KEY
    chat,         \* a call of the chatbot or of its route
    crop_data,    \* the collection crop_data, in the order of insertion
    upload_batches, \* the collection upload_batches
    issued,       \* the identifiers uuid4 has returned
    uploads,      \* the requests of POST /api/upload/csv, each at its await
    crop_read,    \* a request of GET /api/crop-data
    prices,       \* a request of GET /farmer/crop-prices
    weather,      \* a call of WeatherService.get_agricultural_weather
    http,         \* a request of a chat endpoint, with the HTTP response
    predictor,    \* the process of optimized_predictor.py and its model file
    mongodb       \* database/mongodb.py: its globals and its callers

ml_vars == <<phase, database, files, ml_service, loaded_from, hash_seed, reqs, response, call>>
rec_vars == <<crop_files, crop_service, rec>>
chat_vars == <<environ, chat>>
csv_vars == <<crop_data, upload_batches, issued, uploads, crop_read>>
price_vars == <<prices>>
more_vars == <<weather, http, predictor, mongodb>>
ext_vars == <<rec_vars, chat_vars, csv_vars, price_vars, more_vars>>
vars == <<ml_vars, ext_vars>>

\* ------------------------------------------------------------------------
\* Program constants
\* ------------------------------------------------------------------------
base_yield == 30
HgPerQuintal == 10
CurrentYear == 2026
EmergencyYield == 2500

\* the label vocabularies saved with the model (LabelEncoder.classes_, sorted)
AreaClasses ==
    << <<"A", "n", "d", "h", "r", "a", " ", "P", "r", "a", "d", "e", "s", "h">>,
       <<"B", "i", "h", "a", "r">>,
       <<"H", "a", "r", "y", "a", "n", "a">>,
       <<"K", "a", "r", "n", "a", "t", "a", "k", "a">>,
       <<"M", "a", "h", "a", "r", "a", "s", "h", "t", "r", "a">>,
       <<"P", "u", "n", "j", "a", "b">>,
       <<"R", "a", "j", "a", "s", "t", "h", "a", "n">>,
       <<"T", "a", "m", "i", "l", " ", "N", "a", "d", "u">>,
       <<"U", "t", "t", "a", "r", " ", "P", "r", "a", "d", "e", "s", "h">>,
       <<"W", "e", "s", "t", " ", "B", "e", "n", "g", "a", "l">> >>

CropClasses ==
    << <<"C", "o", "t", "t", "o", "n">>,
       <<"M", "a", "i", "z", "e">>,
       <<"R", "i", "c", "e">>,
       <<"S", "o", "y", "b", "e", "a", "n">>,
       <<"S", "u", "g", "a", "r", "c", "a", "n", "e">>,
       <<"W", "h", "e", "a", "t">> >>

\* Python's None, for a field that holds an estimator
None == "None"

\* the dict joblib.load returns for the encoders file, and None in its place
EncodersObject == [none |-> FALSE, area_classes |-> AreaClasses, crop_classes |-> CropClasses]
NoEncoders == [none |-> TRUE, area_classes |-> <<>>, crop_classes |-> <<>>]

\* ------------------------------------------------------------------------
\* The environment's functions
\* ------------------------------------------------------------------------
RECURSIVE SumOrd(_)
SumOrd(s) ==
    IF Len(s) = 0 THEN 0
    ELSE SumOrd(Tail(s)) + PosIn(LowerCase, Lower(<<s[1]>>)[1]) + 3 * PosIn(Upper, s[1])

\* hash(s) of a str: fixed within one process, different between processes
PyHash(seed, s) == (seed * 7919 + 1) * SumOrd(s) + 104729 * seed * Len(s)

\* yield_model.predict(input_df)[0], in hundredths of a hectogram/hectare: the
\* estimator is an opaque, fixed function of the six features.  Its values
\* here are even, so that r / 10 is never a decimal tie at two places, where
\* binary floating point and decimal arithmetic round differently.
ModelPredict(model_input) ==
    2 * (15000 + 515 * model_input.Item + 259 * model_input.Area
               + 3 * model_input.rainfall_mm + 7 * model_input.avg_temp
               + model_input.pesticides_tonnes + (model_input.Year % 5))

\* ------------------------------------------------------------------------
\* MLService.__init__, _load_models, initialize
\* ------------------------------------------------------------------------
\* A file of the artifact store is "missing", "corrupt" (joblib.load raises),
\* "small" (under 1000 bytes), "good", or, for the estimator, "incompatible":
\* it deserializes, and its predict raises.
YieldModelFiles == {"missing", "corrupt", "good", "incompatible"}
YieldEncoderFiles == {"missing", "corrupt", "good"}
CropModelFiles == {"missing", "small", "corrupt", "good"}
CropImputerFiles == {"missing", "good"}

FileStates ==
    [yield_model : YieldModelFiles, yield_encoders : YieldEncoderFiles,
     crop_model : CropModelFiles, crop_imputer : CropImputerFiles]

MLServiceInit ==
    [yield_model |-> None, yield_encoders |-> NoEncoders,
     crop_model |-> None, crop_imputer |-> None, is_initialized |-> FALSE]

\* joblib.load of the estimator file, for a file that loads
LoadedEstimator(file) == IF file = "incompatible" THEN "Incompatible" ELSE "RandomForestRegressor"

_load_models(self, disk) ==
    LET yield_loaded ==
            IF disk.yield_model # "missing"
            THEN IF disk.yield_model = "corrupt" \/ disk.yield_encoders = "corrupt"
                 THEN [self EXCEPT !.yield_model = None, !.yield_encoders = NoEncoders]
                 ELSE [self EXCEPT !.yield_model = LoadedEstimator(disk.yield_model),
                                   !.yield_encoders =
                                       IF disk.yield_encoders # "missing"
                                       THEN EncodersObject ELSE NoEncoders]
            ELSE [self EXCEPT !.yield_encoders = NoEncoders]
    IN  IF disk.crop_model # "missing" /\ disk.crop_imputer # "missing"
        THEN IF disk.crop_model = "small" \/ disk.crop_imputer = "small"
             THEN [yield_loaded EXCEPT !.crop_model = None, !.crop_imputer = None]
             ELSE IF disk.crop_model = "corrupt" \/ disk.crop_imputer = "corrupt"
             THEN [yield_loaded EXCEPT !.crop_model = None, !.crop_imputer = None]
             ELSE [yield_loaded EXCEPT !.crop_model = "RandomForestClassifier",
                                       !.crop_imputer = "SimpleImputer"]
        ELSE [yield_loaded EXCEPT !.crop_model = None, !.crop_imputer = None]

\* a faulty variant: a missing yield model counts as a failed initialization
initialize_needs_model(self, disk) ==
    [_load_models(self, disk) EXCEPT !.is_initialized = (disk.yield_model # "missing")]

initialize(self, disk) == [_load_models(self, disk) EXCEPT !.is_initialized = TRUE]

\* ------------------------------------------------------------------------
\* MLService._fallback_yield_prediction
\* ------------------------------------------------------------------------
temp_factor(temp) ==
    IF 20 <= temp /\ temp <= 30 THEN 100
    ELSE IF temp < 15 \/ temp > 40 THEN 50
    ELSE IF temp < 20 \/ temp > 35 THEN 70
    ELSE 85

rain_factor(rainfall) ==
    IF 75 <= rainfall /\ rainfall <= 200 THEN 100
    ELSE IF rainfall < 30 \/ rainfall > 400 THEN 40
    ELSE IF rainfall < 50 \/ rainfall > 300 THEN 60
    ELSE 80

crop_factor(crop, temp, rainfall) ==
    IF Contains(crop, rice) THEN (IF rainfall > 150 THEN 120 ELSE 90)
    ELSE IF Contains(crop, wheat) THEN (IF 15 <= temp /\ temp <= 25 THEN 110 ELSE 80)
    ELSE IF Contains(crop, maize) \/ Contains(crop, corn)
         THEN (IF 20 <= temp /\ temp <= 30 /\ rainfall > 100 THEN 115 ELSE 85)
    ELSE 100

EmergencyDefault ==
    [predicted_yield_per_hectare |-> EmergencyYield,
     total_predicted_production |-> EmergencyYield,
     model_type |-> "Emergency Default"]

\* the body of the try block: Raise when a statement of it raises
FallbackTry(input_data) ==
    LET temp == PyFloat(Get(input_data, "temperature", Num(25)))
        rainfall == PyFloat(Get(input_data, "rainfall", Num(100)))
        area_hectares == Get(input_data, "area", Num(1))
    IN  IF temp.exc \/ rainfall.exc THEN Raise
        ELSE LET tf == temp_factor(temp.v)
                 rf == rain_factor(rainfall.v)
                 crop == Lower(PyStr(Get(input_data, "crop", Str(Rice))))
                 cf == crop_factor(crop, temp.v, rainfall.v)
                 predicted_yield == base_yield * tf * rf * cf
             IN  IF area_hectares.t # "num" THEN Raise
                 ELSE Ok([predicted_yield_per_hectare |-> RoundDiv(predicted_yield, 10000),
                          total_predicted_production |->
                              RoundDiv(predicted_yield * area_hectares.n, 10000),
                          adjustment_factors |->
                              [temperature_factor |-> tf, rainfall_factor |-> rf,
                               crop_factor |-> cf],
                          model_type |-> "Rule-based Fallback"])

\* a faulty variant: no except clause
_fallback_yield_prediction_unguarded(input_data) == FallbackTry(input_data)

\* the except clause: the emergency default for a try block that raised
FallbackExcept(tried) == IF tried.exc THEN Ok(EmergencyDefault) ELSE tried

_fallback_yield_prediction(input_data) == FallbackExcept(FallbackTry(input_data))

\* ------------------------------------------------------------------------
\* MLService._predict_yield_ml
\* ------------------------------------------------------------------------
\* What the call did besides returning: whether yield_model.predict produced
\* the numbers, its raw output and the encoded categorical features.
NoTrace == [used_model |-> FALSE, raw |-> 0, Area |-> 0, Item |-> 0]

\* a faulty variant: positions counted from 1
encode_label_from_one(classes, name) == PosIn(classes, name)

\* the index of a label in its vocabulary, 0 for a label that is not in it
encode_label(classes, name) ==
    IF InList(classes, name) THEN ListIndex(classes, name) ELSE 0

\* a faulty variant: the conversion applied to a converted value
to_quintal_ha_twice(predicted_yield_hg_ha) ==
    RoundDiv(RoundDiv(predicted_yield_hg_ha, HgPerQuintal), HgPerQuintal)

\* round(predicted_yield_hg_ha / 10, 2)
to_quintal_ha(predicted_yield_hg_ha) == RoundDiv(predicted_yield_hg_ha, HgPerQuintal)

\* the "Year" column as the estimator reads it
YearFeature(v) == IF v.t = "none" THEN Raise ELSE PyFloat(v)

\* the try block from the encoding on, the model being loaded
MLTry(self, seed, input_data) ==
    LET crop_name == PyStr(Get(input_data, "crop", Str(Rice)))
        state_name == PyStr(Get(input_data, "state", Str(Punjab)))
        enc == self.yield_encoders
        area_encoded ==
            IF ~enc.none THEN encode_label(enc.area_classes, state_name)
            ELSE PyHash(seed, state_name) % 10
        crop_encoded ==
            IF ~enc.none THEN encode_label(enc.crop_classes, crop_name)
            ELSE PyHash(seed, crop_name) % 6
        Year == YearFeature(Get(input_data, "year", Num(CurrentYear)))
        rainfall_mm == PyFloat(Get(input_data, "rainfall", Num(0)))
        pesticides_tonnes == PyFloat(Get(input_data, "pesticides", Num(0)))
        avg_temp == PyFloat(Get(input_data, "temperature", Num(25)))
        area_hectares == Get(input_data, "area", Num(1))
    IN  IF rainfall_mm.exc \/ pesticides_tonnes.exc \/ avg_temp.exc \/ Year.exc THEN Raise
        ELSE IF self.yield_model = "Incompatible" THEN Raise
        ELSE LET model_input ==
                     [Year |-> Year.v, rainfall_mm |-> rainfall_mm.v,
                      pesticides_tonnes |-> pesticides_tonnes.v, avg_temp |-> avg_temp.v,
                      Area |-> area_encoded, Item |-> crop_encoded]
                 predicted_yield_hg_ha == ModelPredict(model_input)
                 predicted_yield_quintal_ha == to_quintal_ha(predicted_yield_hg_ha)
             IN  IF area_hectares.t # "num" THEN Raise
                 ELSE [exc |-> FALSE,
                       v |-> [predicted_yield_per_hectare |-> predicted_yield_quintal_ha,
                              total_predicted_production |->
                                  predicted_yield_quintal_ha * area_hectares.n,
                              model_features_used |->
                                  [year |-> Year.v, rainfall_mm |-> rainfall_mm.v,
                                   pesticides_tonnes |-> pesticides_tonnes.v,
                                   avg_temp |-> avg_temp.v,
                                   state |-> state_name, crop |-> crop_name],
                              model_type |-> "Random Forest ML Model"],
                       trace |-> [used_model |-> TRUE, raw |-> predicted_yield_hg_ha,
                                  Area |-> area_encoded, Item |-> crop_encoded]]

\* the fallback's outcome, as returned from _predict_yield_ml
Untraced(out) == [exc |-> out.exc, v |-> out.v, trace |-> NoTrace]

ViaFallback(input_data) == Untraced(_fallback_yield_prediction(input_data))

\* the except clause of _predict_yield_ml: the fallback for a try block that
\* raised
MLExcept(tried, input_data) == IF tried.exc THEN ViaFallback(input_data) ELSE tried

\* the try and except of _predict_yield_ml
predict_or_fallback(self, seed, input_data) ==
    IF self.yield_model = None THEN ViaFallback(input_data)
    ELSE MLExcept(MLTry(self, seed, input_data), input_data)

\* The outcome of a method call: exc (it raised), v (the value returned),
\* trace, and self, the object's fields when the call ends.
Returning(out, self) == [exc |-> out.exc, v |-> out.v, trace |-> out.trace, self |-> self]

\* a faulty variant: a service without a model tries the load again
_predict_yield_ml_reloading(self, seed, input_data) ==
    LET now == IF self.yield_model = None THEN _load_models(self, files) ELSE self
    IN  Returning(predict_or_fallback(now, seed, input_data), now)

\* a faulty variant: a prediction of the model that raises drops the model
_predict_yield_ml_dropping(self, seed, input_data) ==
    LET out == predict_or_fallback(self, seed, input_data)
    IN  Returning(out, IF self.yield_model # None /\ ~out.trace.used_model
                       THEN [self EXCEPT !.yield_model = None] ELSE self)

_predict_yield_ml(self, seed, input_data) ==
    Returning(predict_or_fallback(self, seed, input_data), self)

\* ------------------------------------------------------------------------
\* Inputs
\* ------------------------------------------------------------------------
HashSeeds == {0, 1}

\* the request dicts of the direct calls
LooseDicts ==
    [crop : {Str(Rice), Str(wheat), Str(Maize), Str(SweetCorn), Str(Banana), NoneV, Missing},
     state : {Str(Punjab), Str(Atlantis)},
     year : {Num(2024), NoneV},
     rainfall : {Num(20), Num(40), Num(100), Num(180), Num(250), Num(350), Num(450),
                 Str(abc), Missing},
     temperature : {Num(10), Num(17), Num(25), Num(32), Num(38), Num(45), Str(s25), NoneV,
                    Missing},
     pesticides : {Num(0), Missing},
     area : {Num(0 - 1), Num(1), Num(2), Str(abc), Missing}]

NoCall == [st |-> "none"]

\* ------------------------------------------------------------------------
\* MLService.recommend_crop
\* ------------------------------------------------------------------------
\* pH values are in tenths; a match value is in millionths, a score in
\* thousandths.
One == 1000 * 1000

crops_data ==
    << [crop |-> "Rice", N_req |-> 80, P_req |-> 40, K_req |-> 40, ph_range |-> <<55, 70>>,
        temp_range |-> <<20, 35>>, humidity_min |-> 75, rainfall_min |-> 1000],
       [crop |-> "Wheat", N_req |-> 50, P_req |-> 30, K_req |-> 30, ph_range |-> <<60, 75>>,
        temp_range |-> <<15, 25>>, humidity_min |-> 50, rainfall_min |-> 400],
       [crop |-> "Maize", N_req |-> 70, P_req |-> 35, K_req |-> 35, ph_range |-> <<58, 70>>,
        temp_range |-> <<21, 30>>, humidity_min |-> 60, rainfall_min |-> 500],
       [crop |-> "Cotton", N_req |-> 60, P_req |-> 25, K_req |-> 50, ph_range |-> <<58, 80>>,
        temp_range |-> <<21, 32>>, humidity_min |-> 50, rainfall_min |-> 400],
       [crop |-> "Soybean", N_req |-> 20, P_req |-> 30, K_req |-> 100, ph_range |-> <<60, 70>>,
        temp_range |-> <<20, 30>>, humidity_min |-> 70, rainfall_min |-> 450] >>

Abs(x) == IF x < 0 THEN 0 - x ELSE x
Max2(a, b) == IF a >= b THEN a ELSE b
Min2(a, b) == IF a <= b THEN a ELSE b

\* 1 - abs(x - req) / max(x, req, 1)
nutrient_match(x, req) == One - (One * Abs(x - req)) \div Max2(Max2(x, req), 1)

\* 1.0 inside the range, else max(0, 1 - distance / span)
range_match(x, range, span) ==
    IF range[1] <= x /\ x <= range[2] THEN One
    ELSE Max2(0, One - (One * Min2(Abs(x - range[1]), Abs(x - range[2]))) \div span)

\* 1.0 at or above the minimum, else x / minimum
min_match(x, minimum) == IF x >= minimum THEN One ELSE (One * x) \div minimum

\* round(x, 3) of a value in millionths, in thousandths
Round3(x) == RoundDiv(x, 1000)

crop_score(crop, a) ==
    LET n_match == nutrient_match(a.N, crop.N_req)
        p_match == nutrient_match(a.P, crop.P_req)
        k_match == nutrient_match(a.K, crop.K_req)
        ph_match == range_match(a.ph, crop.ph_range, 20)
        temp_match == range_match(a.temperature, crop.temp_range, 15)
        humidity_match == min_match(a.humidity, crop.humidity_min)
        rainfall_match == min_match(a.rainfall, crop.rainfall_min)
    IN  [crop |-> crop.crop,
         suitability_score |->
             RoundDiv(n_match + p_match + k_match + ph_match + temp_match
                          + humidity_match + rainfall_match, 7 * 1000),
         factors |-> [nitrogen_match |-> Round3(n_match),
                      phosphorus_match |-> Round3(p_match),
                      potassium_match |-> Round3(k_match),
                      ph_match |-> Round3(ph_match),
                      temperature_match |-> Round3(temp_match),
                      humidity_match |-> Round3(humidity_match),
                      rainfall_match |-> Round3(rainfall_match)]]

\* list.sort(key = suitability_score, reverse = True): stable, descending
RECURSIVE InsertDesc(_, _)
InsertDesc(sorted, x) ==
    IF Len(sorted) = 0 THEN <<x>>
    ELSE IF sorted[1].suitability_score >= x.suitability_score
         THEN <<sorted[1]>> \o InsertDesc(Tail(sorted), x)
         ELSE <<x>> \o sorted

RECURSIVE SortDesc(_)
SortDesc(lst) ==
    IF Len(lst) = 0 THEN <<>>
    ELSE InsertDesc(SortDesc(SubSeq(lst, 1, Len(lst) - 1)), lst[Len(lst)])

\* lst[:n]
Take(lst, n) == SubSeq(lst, 1, Min2(n, Len(lst)))

\* the dict returned for the top three recommendations
Recommendation(a, top) ==
    [recommended_crops |-> top,
     soil_analysis |->
         [nitrogen_level |->
              IF a.N > 100 THEN "High" ELSE IF a.N > 50 THEN "Medium" ELSE "Low",
          phosphorus_level |->
              IF a.P > 50 THEN "High" ELSE IF a.P > 25 THEN "Medium" ELSE "Low",
          potassium_level |->
              IF a.K > 150 THEN "High" ELSE IF a.K > 75 THEN "Medium" ELSE "Low",
          ph_status |->
              IF a.ph < 65 THEN "Acidic"
              ELSE IF a.ph < 75 THEN "Neutral" ELSE "Alkaline"],
     weather_suitability |->
         [temperature_status |->
              IF 20 <= a.temperature /\ a.temperature <= 30
              THEN "Optimal" ELSE "Sub-optimal",
          humidity_status |-> IF a.humidity > 60 THEN "Good" ELSE "Low",
          rainfall_status |-> IF a.rainfall > 500 THEN "Adequate" ELSE "Low"],
     confidence_scores |->
         [c \in {top[i].crop : i \in 1..Len(top)} |->
              (CHOOSE r \in {top[i] : i \in 1..Len(top)} : r.crop = c)
                  .suitability_score]]

recommend_crop(self, a) ==
    IF ~self.is_initialized THEN [exc |-> TRUE, v |-> 0, self |-> self]
    ELSE [exc |-> FALSE,
          v |-> Recommendation(
                    a,
                    Take(SortDesc([i \in 1..Len(crops_data) |->
                                       crop_score(crops_data[i], a)]), 3)),
          self |-> self]

\* ------------------------------------------------------------------------
\* MLService.get_model_info
\* ------------------------------------------------------------------------
get_model_info(self) ==
    [exc |-> FALSE,
     v |-> [yield_model_loaded |-> self.yield_model # None,
            yield_encoders_loaded |-> ~self.yield_encoders.none,
            crop_model_loaded |-> self.crop_model # None,
            crop_imputer_loaded |-> self.crop_imputer # None,
            supported_crops |->
                IF ~self.yield_encoders.none THEN self.yield_encoders.crop_classes
                ELSE <<"Rice", "Wheat", "Maize", "Cotton", "Soybean">>,
            supported_states |->
                IF ~self.yield_encoders.none THEN self.yield_encoders.area_classes
                ELSE <<"Punjab", "Haryana", "Uttar Pradesh">>,
            model_type |->
                IF self.yield_model # None THEN "Random Forest ML Model"
                ELSE "Rule-based Fallback"],
     self |-> self]

\* ------------------------------------------------------------------------
\* MLService._generate_yield_recommendations_ml and MLService.predict_yield
\* ------------------------------------------------------------------------
\* dict.get(key, default) on a result dict
GetField(d, key, default) == IF key \in DOMAIN d THEN d[key] ELSE default

EmptyDict == [k \in {} |-> 0]

\* [x for (cond, x) in items if cond]
RECURSIVE Selected(_)
Selected(items) ==
    IF Len(items) = 0 THEN <<>>
    ELSE (IF items[1][1] THEN <<items[1][2]>> ELSE <<>>) \o Selected(Tail(items))

_generate_yield_recommendations_ml(request, prediction_result) ==
    LET predicted_yield == GetField(prediction_result, "predicted_yield_per_hectare", 0)
        adjustment_factors == GetField(prediction_result, "adjustment_factors", EmptyDict)
        recommendations ==
            Selected(<< <<predicted_yield < 2000, "low_yield">>,
                        <<predicted_yield >= 2000 /\ predicted_yield > 5000, "high_yield">>,
                        <<GetField(adjustment_factors, "temperature_factor", 100) < 80,
                          "temperature_stress">>,
                        <<GetField(adjustment_factors, "rainfall_factor", 100) < 80,
                          "water_stress">>,
                        <<GetField(adjustment_factors, "crop_factor", 100) < 90,
                          "crop_optimization">>,
                        <<request.N < 50, "increase_nitrogen">>,
                        <<request.ph < 60, "apply_lime">>,
                        <<request.ph >= 60 /\ request.ph > 80, "apply_organic_matter">>,
                        <<request.rainfall < 300, "supplemental_irrigation">>,
                        <<request.rainfall >= 300 /\ request.rainfall > 2000,
                          "ensure_drainage">> >>)
    IN  Take(IF Len(recommendations) = 0 THEN <<"favorable">> ELSE recommendations, 5)

\* the YieldPredictionResponse built from the prediction result
YieldPredictionResponse(request, prediction_result, after) ==
    [predicted_yield |-> prediction_result.predicted_yield_per_hectare,
     confidence_score |-> IF after.yield_model # None THEN 850 ELSE 650,
     field_size_hectares |-> request.field_size_hectares,
     total_predicted_production |-> prediction_result.total_predicted_production,
     model_version |-> IF after.yield_model # None THEN "Agrisense_v1.0" ELSE "Fallback_v1.0",
     prediction_factors |-> GetField(prediction_result, "adjustment_factors", EmptyDict),
     recommendations |-> _generate_yield_recommendations_ml(request, prediction_result)]

\* predict_yield from the return of _predict_yield_ml on
predict_yield_with(request, out) ==
    IF out.exc THEN [exc |-> TRUE, v |-> 0, trace |-> NoTrace, self |-> out.self]
    ELSE [exc |-> FALSE,
          v |-> YieldPredictionResponse(request, out.v, out.self),
          trace |-> out.trace,
          self |-> out.self]

predict_yield(self, seed, request) ==
    IF ~self.is_initialized
    THEN [exc |-> TRUE, v |-> 0, trace |-> NoTrace, self |-> self]
    ELSE predict_yield_with(
             request,
             _predict_yield_ml(
                 self, seed,
                 [crop |-> Str(request.crop_type), state |-> Str(request.state),
                  year |-> Num(CurrentYear), rainfall |-> Num(request.rainfall),
                  temperature |-> Num(request.temperature), pesticides |-> Num(0),
                  area |-> Num(request.field_size_hectares)]))

\* ------------------------------------------------------------------------
\* Route handlers of main.py
\* ------------------------------------------------------------------------
\* The outcome of a handler: the HTTP response, what the prediction did
\* (trace) and the service object when the handler ends.
Http(status, body, trace, self) ==
    [status |-> status, body |-> body, trace |-> trace, self |-> self]

NotInitialized(self) ==
    Http(503, [detail |-> "ML service is still initializing. Please try again in a moment."],
         NoTrace, self)

\* the handler from the return of ml_service.predict_yield on
predict_yield_response(out) ==
    IF out.exc
    THEN Http(500, [detail |-> "Yield prediction failed"], NoTrace, out.self)
    ELSE Http(200, out.v, out.trace, out.self)

route_predict_yield(self, seed, request) ==
    IF ~self.is_initialized THEN NotInitialized(self)
    ELSE predict_yield_response(predict_yield(self, seed, request))

\* the input_data dict of the handler
simple_yield_input(request) ==
    [crop |-> Str(request.crop), state |-> Str(request.state),
     year |-> Num(IF request.year # 0 THEN request.year ELSE CurrentYear),
     rainfall |-> Num(request.rainfall),
     temperature |-> Num(request.temperature),
     pesticides |-> Num(request.pesticides), area |-> Num(request.area)]

\* the handler from the return of ml_service._predict_yield_ml on
simple_yield_response(request, input_data, out) ==
    IF out.exc
    THEN Http(500, [detail |-> "Yield prediction failed"], NoTrace, out.self)
    ELSE Http(200,
              [success |-> TRUE,
               predicted_yield |-> out.v.predicted_yield_per_hectare,
               total_production |-> out.v.total_predicted_production,
               unit |-> "quintals",
               input_data |->
                   [crop |-> request.crop, state |-> request.state,
                    rainfall_mm |-> request.rainfall,
                    temperature_celsius |-> request.temperature,
                    area_hectares |-> request.area,
                    pesticides_tonnes |-> request.pesticides,
                    year |-> input_data.year.n],
               model_type |-> GetField(out.v, "model_type", "Agrisense ML")],
              out.trace, out.self)

route_predict_simple_yield(self, seed, request) ==
    IF ~self.is_initialized THEN NotInitialized(self)
    ELSE simple_yield_response(
             request, simple_yield_input(request),
             _predict_yield_ml(self, seed, simple_yield_input(request)))

\* recommendation[key] for every key the handler reads: a missing key raises
\* KeyError, which the handler's  except Exception  turns into HTTP 500
HasKeys(d, keys) == \A k \in keys : k \in DOMAIN d

\* the handler from the return of ml_service.recommend_crop on
recommend_crop_response(out) ==
    IF out.exc
       \/ ~HasKeys(out.v,
                   {"success", "recommended_crop", "confidence",
                    "top_3_recommendations", "soil_analysis",
                    "environmental_analysis", "model_type", "supported_crops"})
    THEN Http(500, [detail |-> "Crop recommendation failed"], NoTrace, out.self)
    ELSE Http(200,
              [success |-> out.v.success,
               recommended_crop |-> out.v.recommended_crop,
               confidence |-> out.v.confidence,
               top_3_recommendations |-> out.v.top_3_recommendations,
               soil_analysis |-> out.v.soil_analysis,
               environmental_analysis |-> out.v.environmental_analysis,
               model_info |->
                   [model_type |-> out.v.model_type,
                    supported_crops |-> out.v.supported_crops]],
              NoTrace, out.self)

route_recommend_crop(self, a) ==
    IF ~self.is_initialized THEN NotInitialized(self)
    ELSE recommend_crop_response(recommend_crop(self, a))

\* crop name -> confidence over the top three recommendations
suggestion_scores(top) ==
    [c \in {top[i].crop : i \in 1..Len(top)} |->
         (CHOOSE r \in {top[i] : i \in 1..Len(top)} : r.crop = c).confidence]

\* the handler from the return of ml_service.recommend_crop on
crop_suggestions_response(a, out) ==
    IF out.exc
       \/ ~HasKeys(out.v, {"recommended_crop", "confidence", "top_3_recommendations"})
    THEN Http(500, [detail |-> "Failed to get crop suggestions"], NoTrace, out.self)
    ELSE Http(200,
              [success |-> TRUE,
               recommended_crop |-> out.v.recommended_crop,
               confidence |-> out.v.confidence,
               suggestions |->
                   [i \in 1..Len(out.v.top_3_recommendations) |->
                        out.v.top_3_recommendations[i].crop],
               confidence_scores |-> suggestion_scores(out.v.top_3_recommendations),
               input_data |-> a],
              NoTrace, out.self)

route_get_crop_suggestions(self, a) ==
    IF ~self.is_initialized THEN NotInitialized(self)
    ELSE crop_suggestions_response(a, recommend_crop(self, a))

\* the requests of the HTTP clients
SimpleYieldRequests ==
    [kind : {"simple_yield"}, crop : {Maize}, state : {Punjab},
     rainfall : {180}, temperature : {32}, area : {0 - 1, 2}, pesticides : {0}, year : {0}]

YieldRequests ==
    [kind : {"yield"}, crop_type : {Maize}, state : {Bihar}, field_size_hectares : {2},
     N : {40}, ph : {65}, temperature : {32}, rainfall : {100}]

SoilInputs ==
    [N : {90}, P : {42}, K : {43}, temperature : {21}, humidity : {82}, ph : {65},
     rainfall : {203}]

RecommendationRequests == [kind : {"crop_recommendation", "crop_suggestions"}, a : SoilInputs]

ModelInfoRequests == [kind : {"model_info"}]

Requests ==
    SimpleYieldRequests \cup YieldRequests \cup RecommendationRequests \cup ModelInfoRequests

NoResponse == [req |-> [kind |-> "none"], resp |-> [status |-> 0]]

\* a direct call of ml_service.get_model_info(): it has no route, what it
\* returns is recorded like the body of a successful response
model_info_response(out) == Http(200, out.v, NoTrace, out.self)

\* the handler of a request
Handler(self, seed, request) ==
    CASE request.kind = "simple_yield" -> route_predict_simple_yield(self, seed, request)
      [] request.kind = "yield" -> route_predict_yield(self, seed, request)
      [] request.kind = "crop_recommendation" -> route_recommend_crop(self, request.a)
      [] request.kind = "crop_suggestions" -> route_get_crop_suggestions(self, request.a)
      [] request.kind = "model_info" -> model_info_response(get_model_info(self))

\* ------------------------------------------------------------------------
\* services/crop_recommendation_service.py: CropRecommendationService
\* ------------------------------------------------------------------------
\* Probabilities are in ten-thousandths, reported confidences in thousandths.
supported_crops ==
    <<"apple", "banana", "blackgram", "chickpea", "coconut", "coffee",
      "cotton", "grapes", "jute", "kidneybeans", "lentil", "maize",
      "mango", "mothbeans", "mungbean", "muskmelon", "orange", "papaya",
      "pigeonpeas", "pomegranate", "rice", "watermelon">>

\* an estimator object: whether it has predict_proba, and its classes_
NoModel == [none |-> TRUE, has_proba |-> FALSE, classes_ |-> <<>>]
Classifier(has_proba, n) ==
    [none |-> FALSE, has_proba |-> has_proba, classes_ |-> SubSeq(supported_crops, 1, n)]

CropServiceInit == [model |-> NoModel, is_initialized |-> FALSE]

\* The models directory as the service finds it.  RF.pkl is "missing",
\* "corrupt" (pickle.load raises), "good" (a RandomForestClassifier) or
\* "plain" (an estimator without predict_proba); the dataset is "missing",
\* "corrupt" (read_csv or fit raises), "good", or "unsaved" (good, and the
\* trained model cannot be written); labels is the number of crop labels of
\* the pickled model and of the dataset.
CropDisks ==
    [rf_pkl : {"missing", "corrupt", "good", "plain"},
     dataset : {"missing", "corrupt", "good", "unsaved"},
     labels : 1..MaxClasses]

NoDisk == [rf_pkl |-> "missing", dataset |-> "missing", labels |-> 1]

_train_new_model(self, disk) ==
    IF disk.dataset = "missing" \/ disk.dataset = "corrupt" THEN self
    ELSE IF disk.dataset = "unsaved"
         THEN [self EXCEPT !.model = Classifier(TRUE, disk.labels)]
         ELSE [model |-> Classifier(TRUE, disk.labels), is_initialized |-> TRUE]

CropRecommendationService_initialize(self, disk) ==
    IF disk.rf_pkl = "good" \/ disk.rf_pkl = "plain"
    THEN [model |-> Classifier(disk.rf_pkl = "good", disk.labels), is_initialized |-> TRUE]
    ELSE _train_new_model(self, disk)

\* the seven inputs, each a value of a Python type
FeatureNames == {"N", "P", "K", "temperature", "humidity", "ph", "rainfall"}

\* (value, min_val, max_val, name), pH in tenths
Validations(a) ==
    << <<a.N, 0, 140, "Nitrogen">>, <<a.P, 5, 145, "Phosphorus">>,
       <<a.K, 5, 205, "Potassium">>, <<a.temperature, 8, 50, "Temperature">>,
       <<a.humidity, 14, 100, "Humidity">>, <<a.ph, 35, 100, "pH">>,
       <<a.rainfall, 20, 300, "Rainfall">> >>

\* a faulty variant: a value outside its range raises as a non-number does
_validate_inputs_rejecting(a) ==
    [exc |-> \E i \in 1..7 :
                \/ Validations(a)[i][1].t # "num"
                \/ ~(Validations(a)[i][2] <= Validations(a)[i][1].n
                     /\ Validations(a)[i][1].n <= Validations(a)[i][3]),
     warnings |-> {}]

\* raises ValueError for a value that is not a number; the names of the
\* values outside their range are logged
_validate_inputs(a) ==
    [exc |-> \E i \in 1..7 : Validations(a)[i][1].t # "num",
     warnings |->
         {Validations(a)[i][4] : i \in
             {j \in 1..7 : /\ Validations(a)[j][1].t = "num"
                           /\ \A k \in 1..j : Validations(a)[k][1].t = "num"
                           /\ ~(Validations(a)[j][2] <= Validations(a)[j][1].n
                                /\ Validations(a)[j][1].n <= Validations(a)[j][3])}}]

get_nutrient_level(value, low_threshold, high_threshold) ==
    IF value < low_threshold THEN "Low"
    ELSE IF value > high_threshold THEN "High" ELSE "Optimal"

get_ph_status(ph_value) ==
    IF ph_value < 60 THEN "Acidic" ELSE IF ph_value > 75 THEN "Alkaline" ELSE "Neutral"

_analyze_soil_conditions(N, P, K, ph) ==
    [nitrogen_status |-> get_nutrient_level(N, 40, 120),
     phosphorus_status |-> get_nutrient_level(P, 20, 80),
     potassium_status |-> get_nutrient_level(K, 30, 150),
     ph_status |-> get_ph_status(ph),
     overall_soil_health |->
         IF 40 <= N /\ N <= 120 /\ 20 <= P /\ P <= 80 /\ 30 <= K /\ K <= 150
            /\ 60 <= ph /\ ph <= 75
         THEN "Good" ELSE "Needs Attention"]

get_temp_status(temp) == IF temp < 15 THEN "Cold" ELSE IF temp > 35 THEN "Hot" ELSE "Optimal"
get_humidity_status(hum) == IF hum < 40 THEN "Low" ELSE IF hum > 85 THEN "High" ELSE "Good"
get_rainfall_status(rain) ==
    IF rain < 50 THEN "Low" ELSE IF rain > 200 THEN "High" ELSE "Adequate"

_analyze_environmental_conditions(temperature, humidity, rainfall) ==
    [temperature_status |-> get_temp_status(temperature),
     humidity_status |-> get_humidity_status(humidity),
     rainfall_status |-> get_rainfall_status(rainfall),
     overall_climate |->
         IF 15 <= temperature /\ temperature <= 35 /\ 40 <= humidity /\ humidity <= 85
            /\ 50 <= rainfall /\ rainfall <= 200
         THEN "Favorable" ELSE "Challenging"]

\* sorted(items, key = lambda x: x[1], reverse = True): stable, descending
RECURSIVE InsertByProb(_, _)
InsertByProb(sorted, x) ==
    IF Len(sorted) = 0 THEN <<x>>
    ELSE IF sorted[1][2] >= x[2]
         THEN <<sorted[1]>> \o InsertByProb(Tail(sorted), x)
         ELSE <<x>> \o sorted

RECURSIVE SortByProb(_)
SortByProb(items) ==
    IF Len(items) = 0 THEN <<>>
    ELSE InsertByProb(SortByProb(SubSeq(items, 1, Len(items) - 1)), items[Len(items)])

\* the index of the first largest probability (numpy.argmax)
RECURSIVE ArgMax(_, _)
ArgMax(probabilities, n) ==
    IF n = 1 THEN 1
    ELSE IF probabilities[n] > probabilities[ArgMax(probabilities, n - 1)]
         THEN n ELSE ArgMax(probabilities, n - 1)

\* model.predict(input_data)[0]: the class the forest gives the largest
\* probability; an estimator without predict_proba answers any class (guess)
ClassifierPredict(model, probabilities, guess) ==
    IF model.has_proba THEN model.classes_[ArgMax(probabilities, Len(model.classes_))]
    ELSE model.classes_[guess]

\* round(prob, 3) of a probability in ten-thousandths
RoundProb(prob) == RoundDiv(prob, 10)

\* a faulty variant: the first three classes, unsorted
TopCrops_unsorted(model, probabilities, predicted_crop) ==
    IF model.has_proba
    THEN Take([i \in 1..Len(model.classes_) |-> <<model.classes_[i], probabilities[i]>>], 3)
    ELSE << <<predicted_crop, 8500>> >>

\* the top crops and the confidence, with and without predict_proba
TopCrops(model, probabilities, predicted_crop) ==
    IF model.has_proba
    THEN Take(SortByProb([i \in 1..Len(model.classes_) |->
                              <<model.classes_[i], probabilities[i]>>]), 3)
    ELSE << <<predicted_crop, 8500>> >>

Confidence(model, probabilities, predicted_crop) ==
    IF model.has_proba
    THEN probabilities[PosIn(model.classes_, predicted_crop)]
    ELSE 8500

\* the dict returned, from the prediction on
AgriSensRecommendation(a, predicted_crop, confidence, top_crops) ==
    [success |-> TRUE,
     recommended_crop |-> predicted_crop,
     confidence |-> RoundProb(confidence),
     top_3_recommendations |->
         [i \in 1..Len(top_crops) |->
              [crop |-> top_crops[i][1], confidence |-> RoundProb(top_crops[i][2])]],
     soil_analysis |-> _analyze_soil_conditions(a.N.n, a.P.n, a.K.n, a.ph.n),
     environmental_analysis |->
         _analyze_environmental_conditions(a.temperature.n, a.humidity.n, a.rainfall.n),
     input_parameters |->
         [nitrogen |-> a.N.n, phosphorus |-> a.P.n, potassium |-> a.K.n,
          temperature |-> a.temperature.n, humidity |-> a.humidity.n,
          ph |-> a.ph.n, rainfall |-> a.rainfall.n],
     model_type |-> "AgriSens Random Forest",
     supported_crops |-> Len(supported_crops)]

\* recommend_crop from the validation on
Recommended(model, a, probabilities, predicted_crop, validation) ==
    IF validation.exc THEN [exc |-> TRUE, v |-> 0, warnings |-> {}]
    ELSE [exc |-> FALSE,
          v |-> AgriSensRecommendation(
                    a, predicted_crop,
                    Confidence(model, probabilities, predicted_crop),
                    TopCrops(model, probabilities, predicted_crop)),
          warnings |-> validation.warnings]

\* probabilities is the forest's predict_proba for this input
CropRecommendationService_recommend_crop(self, a, probabilities, guess) ==
    IF ~self.is_initialized \/ self.model.none
    THEN [exc |-> TRUE, v |-> 0, warnings |-> {}]
    ELSE Recommended(self.model, a, probabilities,
                     ClassifierPredict(self.model, probabilities, guess),
                     _validate_inputs(a))

\* the inputs of the recommendation calls
RecInputs ==
    [N : {0, 90, 200}, P : {42}, K : {43, 300}, temperature : {21, 60},
     humidity : {0, 82}, ph : {30, 65, 110}, rainfall : {203, 1200}]

\* the query parameters of the recommendation endpoints are floats without
\* bounds: readings below zero are accepted as well
SoilReadings ==
    RecInputs
    \cup [N : {0 - 10, 90}, P : {42}, K : {43}, temperature : {21},
          humidity : {0 - 15, 82}, ph : {65}, rainfall : {203}]
    \cup [N : {0 - 100}, P : {0 - 100}, K : {0 - 100}, temperature : {0 - 40},
          humidity : {0 - 50}, ph : {0 - 30}, rainfall : {0 - 500}]

Typed(a) == [k \in FeatureNames |-> Num(a[k])]

\* numbers in and out of the typical ranges, and a pH that is not a number
AgriSensInputs ==
    {Typed(a) : a \in {b \in RecInputs : b.K = 43 /\ b.humidity = 82 /\ b.rainfall = 203}}
        \cup {[Typed(a) EXCEPT !.ph = Str(abc)] :
                  a \in {b \in RecInputs : /\ b.K = 43 /\ b.humidity = 82
                                            /\ b.rainfall = 203 /\ b.ph = 65}}

\* the outputs predict_proba can have over n classes
ProbLevels == {0, 1666, 1667, 2500, 3333, 3334, 5000, 10000}

RECURSIVE SumSeq(_)
SumSeq(s) == IF Len(s) = 0 THEN 0 ELSE s[1] + SumSeq(Tail(s))

Probabilities(n) == {p \in [1..n -> ProbLevels] : SumSeq(p) = 10000}

NoRec == [st |-> "none"]

\* ------------------------------------------------------------------------
\* services/agriculture_chatbot.py: AgricultureChatbot, and
\* services/openrouter_service.py: OpenRouterService
\*
\* A question is a sequence of one-character strings.  The Markdown text of
\* a response is the record of its template and of the values the template
\* interpolates.  The timestamp of a response is left out.
\* ------------------------------------------------------------------------
Whitespace == {" ", "\t", "\n", "\r"}

RECURSIVE LStrip(_)
LStrip(s) == IF Len(s) > 0 /\ s[1] \in Whitespace THEN LStrip(Tail(s)) ELSE s

RECURSIVE RStrip(_)
RStrip(s) ==
    IF Len(s) > 0 /\ s[Len(s)] \in Whitespace THEN RStrip(SubSeq(s, 1, Len(s) - 1)) ELSE s

\* str.strip()
Strip(s) == RStrip(LStrip(s))

\* str.startswith(prefix)
StartsWith(s, prefix) == Len(s) >= Len(prefix) /\ SubSeq(s, 1, Len(prefix)) = prefix

\* any(word in text for word in words)
AnyIn(words, text) == \E i \in 1..Len(words) : Contains(text, words[i])

strong_ag_keywords ==
  <<
    <<"c", "r", "o", "p">>,
    <<"h", "a", "r", "v", "e", "s", "t">>,
    <<"y", "i", "e", "l", "d">>,
    <<"c", "u", "l", "t", "i", "v", "a", "t", "i", "o", "n">>,
    <<"f", "a", "r", "m", "i", "n", "g">>,
    <<"a", "g", "r", "i", "c", "u", "l", "t", "u", "r", "e">>,
    <<"r", "i", "c", "e">>,
    <<"w", "h", "e", "a", "t">>,
    <<"m", "a", "i", "z", "e">>,
    <<"c", "o", "r", "n">>,
    <<"c", "o", "t", "t", "o", "n">>,
    <<"s", "u", "g", "a", "r", "c", "a", "n", "e">>,
    <<"p", "u", "l", "s", "e">>,
    <<"v", "e", "g", "e", "t", "a", "b", "l", "e">>,
    <<"t", "o", "m", "a", "t", "o">>,
    <<"p", "o", "t", "a", "t", "o">>,
    <<"o", "n", "i", "o", "n">>,
    <<"m", "a", "n", "g", "o">>,
    <<"f", "a", "r", "m">>,
    <<"f", "i", "e", "l", "d">>,
    <<"i", "r", "r", "i", "g", "a", "t", "i", "o", "n">>,
    <<"f", "e", "r", "t", "i", "l", "i", "z", "e", "r">>,
    <<"p", "e", "s", "t", "i", "c", "i", "d", "e">>,
    <<"i", "n", "s", "e", "c", "t", "i", "c", "i", "d", "e">>,
    <<"h", "e", "r", "b", "i", "c", "i", "d", "e">>,
    <<"o", "r", "g", "a", "n", "i", "c">>,
    <<"c", "o", "m", "p", "o", "s", "t">>,
    <<"m", "a", "n", "u", "r", "e">>,
    <<"m", "u", "l", "c", "h">>,
    <<"t", "i", "l", "l", "a", "g", "e">>,
    <<"s", "o", "w", "i", "n", "g">>,
    <<"p", "l", "a", "n", "t", "i", "n", "g">>,
    <<"s", "o", "i", "l">>,
    <<"p", "e", "s", "t">>,
    <<"w", "e", "e", "d">>,
    <<"b", "l", "i", "g", "h", "t">>,
    <<"d", "e", "f", "i", "c", "i", "e", "n", "c", "y">>,
    <<"n", "u", "t", "r", "i", "t", "i", "o", "n">>,
    <<"s", "t", "u", "n", "t", "e", "d">>,
    <<"k", "h", "a", "r", "i", "f">>,
    <<"r", "a", "b", "i">>,
    <<"z", "a", "i", "d">>,
    <<"m", "a", "n", "d", "i">>,
    <<"m", "s", "p">>,
    <<"s", "u", "b", "s", "i", "d", "y">>
  >>

contextual_keywords ==
  <<
    <<"p", "l", "a", "n", "t">>,
    <<"s", "e", "e", "d">>,
    <<"d", "i", "s", "e", "a", "s", "e">>,
    <<"y", "e", "l", "l", "o", "w">>,
    <<"w", "i", "l", "t", "i", "n", "g">>,
    <<"r", "o", "t">>,
    <<"g", "r", "o", "w", "t", "h">>,
    <<"a", "t", "t", "a", "c", "k">>,
    <<"w", "a", "t", "e", "r">>,
    <<"w", "e", "a", "t", "h", "e", "r">>,
    <<"r", "a", "i", "n">>,
    <<"m", "o", "n", "s", "o", "o", "n">>,
    <<"d", "r", "o", "u", "g", "h", "t">>,
    <<"t", "e", "m", "p", "e", "r", "a", "t", "u", "r", "e">>,
    <<"c", "l", "i", "m", "a", "t", "e">>,
    <<"s", "e", "a", "s", "o", "n">>,
    <<"s", "u", "m", "m", "e", "r">>,
    <<"w", "i", "n", "t", "e", "r">>,
    <<"p", "r", "i", "c", "e">>,
    <<"m", "a", "r", "k", "e", "t">>,
    <<"s", "e", "l", "l">>,
    <<"p", "r", "o", "f", "i", "t">>,
    <<"c", "o", "s", "t">>,
    <<"i", "n", "s", "u", "r", "a", "n", "c", "e">>,
    <<"l", "o", "a", "n">>,
    <<"s", "c", "h", "e", "m", "e">>,
    <<"g", "o", "v", "e", "r", "n", "m", "e", "n", "t">>
  >>

non_ag_patterns ==
  <<
    <<"w", "h", "a", "t", " ", "i", "s", " ", "t", "h", "e", " ", "c", "a", "p", "i", "t", "a", "l">>,
    <<"h", "o", "w", " ", "t", "o", " ", "c", "o", "d", "e">>,
    <<"h", "o", "w", " ", "t", "o", " ", "c", "o", "o", "k">>,
    <<"t", "e", "l", "l", " ", "m", "e", " ", "a", " ", "j", "o", "k", "e">>,
    <<"b", "e", "s", "t", " ", "m", "o", "v", "i", "e", "s">>,
    <<"h", "o", "w", " ", "t", "o", " ", "l", "o", "s", "e", " ", "w", "e", "i", "g", "h", "t">>,
    <<"w", "h", "a", "t", " ", "i", "s", " ", "c", "r", "y", "p", "t", "o", "c", "u", "r", "r", "e", "n", "c", "y">>,
    <<"w", "h", "a", "t", " ", "i", "s", " ", "m", "a", "c", "h", "i", "n", "e", " ", "l", "e", "a", "r", "n", "i", "n", "g">>,
    <<"h", "o", "w", " ", "t", "o", " ", "f", "i", "x">>,
    <<"w", "h", "a", "t", "'", "s", " ", "t", "h", "e", " ", "w", "e", "a", "t", "h", "e", "r", " ", "l", "i", "k", "e">>,
    <<"w", "e", "a", "t", "h", "e", "r", " ", "t", "o", "d", "a", "y">>,
    <<"c", "u", "r", "r", "e", "n", "t", " ", "w", "e", "a", "t", "h", "e", "r">>,
    <<"p", "y", "t", "h", "o", "n">>,
    <<"j", "a", "v", "a", "s", "c", "r", "i", "p", "t">>,
    <<"h", "t", "m", "l">>,
    <<"c", "s", "s">>,
    <<"p", "r", "o", "g", "r", "a", "m", "m", "i", "n", "g">>,
    <<"s", "o", "f", "t", "w", "a", "r", "e">>,
    <<"c", "o", "m", "p", "u", "t", "e", "r">>,
    <<"a", "l", "g", "o", "r", "i", "t", "h", "m">>,
    <<"h", "i", "s", "t", "o", "r", "y">>,
    <<"g", "e", "o", "g", "r", "a", "p", "h", "y">>,
    <<"m", "a", "t", "h", "e", "m", "a", "t", "i", "c", "s">>,
    <<"p", "h", "y", "s", "i", "c", "s">>,
    <<"c", "h", "e", "m", "i", "s", "t", "r", "y">>,
    <<"l", "i", "t", "e", "r", "a", "t", "u", "r", "e">>,
    <<"p", "o", "l", "i", "t", "i", "c", "s">>,
    <<"e", "c", "o", "n", "o", "m", "i", "c", "s">>
  >>

ag_context_words ==
  <<
    <<"c", "r", "o", "p">>,
    <<"f", "a", "r", "m">>,
    <<"f", "i", "e", "l", "d">>,
    <<"a", "g", "r", "i", "c", "u", "l", "t", "u", "r", "e">>,
    <<"c", "u", "l", "t", "i", "v", "a", "t", "i", "o", "n">>,
    <<"h", "a", "r", "v", "e", "s", "t">>,
    <<"p", "l", "a", "n", "t">>,
    <<"g", "r", "o", "w">>,
    <<"s", "o", "i", "l">>,
    <<"f", "e", "r", "t", "i", "l", "i", "z", "e", "r">>
  >>

agricultural_phrases ==
  <<
    <<"p", "l", "a", "n", "t">>,
    <<"p", "l", "a", "n", "t", "s", " ", "h", "a", "v", "e">>,
    <<"m", "y", " ", "c", "r", "o", "p">>,
    <<"i", "n", " ", "m", "y", " ", "f", "i", "e", "l", "d">>,
    <<"f", "a", "r", "m", "i", "n", "g">>,
    <<"f", "o", "r", " ", "c", "r", "o", "p", "s">>,
    <<"c", "r", "o", "p", " ", "d", "i", "s", "e", "a", "s", "e">>,
    <<"p", "l", "a", "n", "t", " ", "d", "i", "s", "e", "a", "s", "e">>,
    <<"s", "o", "i", "l", " ", "h", "e", "a", "l", "t", "h">>,
    <<"i", "r", "r", "i", "g", "a", "t", "i", "o", "n">>,
    <<"b", "e", "s", "t", " ", "t", "i", "m", "e", " ", "t", "o", " ", "p", "l", "a", "n", "t">>,
    <<"w", "h", "e", "n", " ", "t", "o", " ", "h", "a", "r", "v", "e", "s", "t">>,
    <<"f", "e", "r", "t", "i", "l", "i", "z", "e", "r", " ", "f", "o", "r">>,
    <<"p", "e", "s", "t", " ", "c", "o", "n", "t", "r", "o", "l">>,
    <<"c", "r", "o", "p", " ", "y", "i", "e", "l", "d">>
  >>

\* _categorize_question: the dict  categories, in its insertion order
categories ==
  <<
    <<"crop_selection", <<<<"w", "h", "i", "c", "h", " ", "c", "r", "o", "p">>, <<"w", "h", "a", "t", " ", "t", "o", " ", "p", "l", "a", "n", "t">>, <<"c", "r", "o", "p", " ", "s", "e", "l", "e", "c", "t", "i", "o", "n">>, <<"b", "e", "s", "t", " ", "c", "r", "o", "p">>>> >>,
    <<"pest_management", <<<<"p", "e", "s", "t">>, <<"i", "n", "s", "e", "c", "t">>, <<"a", "t", "t", "a", "c", "k">>, <<"i", "n", "f", "e", "s", "t", "a", "t", "i", "o", "n">>>> >>,
    <<"disease_control", <<<<"d", "i", "s", "e", "a", "s", "e">>, <<"y", "e", "l", "l", "o", "w">>, <<"w", "i", "l", "t", "i", "n", "g">>, <<"r", "o", "t">>, <<"f", "u", "n", "g", "u", "s">>>> >>,
    <<"fertilizer", <<<<"f", "e", "r", "t", "i", "l", "i", "z", "e", "r">>, <<"n", "u", "t", "r", "i", "e", "n", "t">>, <<"n", "p", "k">>, <<"u", "r", "e", "a">>, <<"d", "a", "p">>>> >>,
    <<"irrigation", <<<<"w", "a", "t", "e", "r">>, <<"i", "r", "r", "i", "g", "a", "t", "i", "o", "n">>, <<"d", "r", "o", "u", "g", "h", "t">>, <<"m", "o", "i", "s", "t", "u", "r", "e">>>> >>,
    <<"harvest", <<<<"h", "a", "r", "v", "e", "s", "t">>, <<"w", "h", "e", "n", " ", "t", "o", " ", "h", "a", "r", "v", "e", "s", "t">>, <<"m", "a", "t", "u", "r", "i", "t", "y">>>> >>,
    <<"market", <<<<"p", "r", "i", "c", "e">>, <<"s", "e", "l", "l">>, <<"m", "a", "r", "k", "e", "t">>, <<"m", "a", "n", "d", "i">>>> >>,
    <<"weather", <<<<"w", "e", "a", "t", "h", "e", "r", " ", "f", "o", "r", " ", "c", "r", "o", "p">>, <<"r", "a", "i", "n", " ", "f", "o", "r", " ", "f", "a", "r", "m", "i", "n", "g">>, <<"c", "l", "i", "m", "a", "t", "e", " ", "f", "o", "r", " ", "a", "g", "r", "i", "c", "u", "l", "t", "u", "r", "e">>>> >>,
    <<"soil", <<<<"s", "o", "i", "l">>, <<"p", "h">>, <<"t", "e", "s", "t", "i", "n", "g">>, <<"q", "u", "a", "l", "i", "t", "y">>>> >>,
    <<"general", <<<<"h", "o", "w", " ", "t", "o">>, <<"w", "h", "a", "t", " ", "i", "s">>, <<"w", "h", "y">>, <<"w", "h", "e", "n">>>> >>
  >>

\* OpenRouterService._categorize_question: its own dict  categories
openrouter_categories ==
  <<
    <<"crop_selection", <<<<"w", "h", "i", "c", "h", " ", "c", "r", "o", "p">>, <<"w", "h", "a", "t", " ", "t", "o", " ", "p", "l", "a", "n", "t">>, <<"c", "r", "o", "p", " ", "s", "e", "l", "e", "c", "t", "i", "o", "n">>, <<"b", "e", "s", "t", " ", "c", "r", "o", "p">>>> >>,
    <<"pest_management", <<<<"p", "e", "s", "t">>, <<"i", "n", "s", "e", "c", "t">>, <<"a", "t", "t", "a", "c", "k">>, <<"i", "n", "f", "e", "s", "t", "a", "t", "i", "o", "n">>>> >>,
    <<"disease_control", <<<<"d", "i", "s", "e", "a", "s", "e">>, <<"y", "e", "l", "l", "o", "w">>, <<"w", "i", "l", "t", "i", "n", "g">>, <<"r", "o", "t">>, <<"f", "u", "n", "g", "u", "s">>>> >>,
    <<"fertilizer", <<<<"f", "e", "r", "t", "i", "l", "i", "z", "e", "r">>, <<"n", "u", "t", "r", "i", "e", "n", "t">>, <<"n", "p", "k">>, <<"u", "r", "e", "a">>, <<"d", "a", "p">>>> >>,
    <<"irrigation", <<<<"w", "a", "t", "e", "r">>, <<"i", "r", "r", "i", "g", "a", "t", "i", "o", "n">>, <<"d", "r", "o", "u", "g", "h", "t">>, <<"m", "o", "i", "s", "t", "u", "r", "e">>>> >>,
    <<"harvest", <<<<"h", "a", "r", "v", "e", "s", "t">>, <<"w", "h", "e", "n", " ", "t", "o", " ", "h", "a", "r", "v", "e", "s", "t">>, <<"m", "a", "t", "u", "r", "i", "t", "y">>>> >>,
    <<"market", <<<<"p", "r", "i", "c", "e">>, <<"s", "e", "l", "l">>, <<"m", "a", "r", "k", "e", "t">>, <<"m", "a", "n", "d", "i">>>> >>,
    <<"weather", <<<<"w", "e", "a", "t", "h", "e", "r">>, <<"r", "a", "i", "n">>, <<"c", "l", "i", "m", "a", "t", "e">>>> >>,
    <<"soil", <<<<"s", "o", "i", "l">>, <<"p", "h">>, <<"t", "e", "s", "t", "i", "n", "g">>, <<"q", "u", "a", "l", "i", "t", "y">>>> >>,
    <<"general", <<<<"h", "o", "w", " ", "t", "o">>, <<"w", "h", "a", "t", " ", "i", "s">>, <<"w", "h", "y">>, <<"w", "h", "e", "n">>>> >>
  >>

\* the questions asked
QuestionText ==
    [empty |-> <<>>,
     joke |-> <<"T", "e", "l", "l", " ", "m", "e", " ", "a", " ", "j", "o", "k", "e">>,
     joke_upper |-> <<"T", "E", "L", "L", " ", "M", "E", " ", "A", " ", "J", "O", "K", "E">>,
     joke_farming |-> <<"T", "e", "l", "l", " ", "m", "e", " ", "a", " ", "j", "o", "k", "e", " ", "a", "b", "o", "u", "t", " ", "f", "a", "r", "m", "i", "n", "g">>,
     weather_today |-> <<"W", "h", "a", "t", " ", "i", "s", " ", "t", "h", "e", " ", "w", "e", "a", "t", "h", "e", "r", " ", "t", "o", "d", "a", "y", "?">>,
     hello |-> <<"H", "e", "l", "l", "o", " ", "t", "h", "e", "r", "e">>,
     rain |-> <<"W", "i", "l", "l", " ", "i", "t", " ", "r", "a", "i", "n", " ", "t", "o", "m", "o", "r", "r", "o", "w">>,
     seeds |-> <<"H", "o", "w", " ", "d", "o", " ", "s", "e", "e", "d", "s", " ", "g", "r", "o", "w">>,
     tomatoes |-> <<"H", "o", "w", " ", "t", "o", " ", "g", "r", "o", "w", " ", "t", "o", "m", "a", "t", "o", "e", "s", " ", "i", "n", " ", "m", "o", "n", "s", "o", "o", "n", " ", "s", "e", "a", "s", "o", "n", "?">>,
     yellow_leaves |-> <<"M", "y", " ", "p", "l", "a", "n", "t", "s", " ", "h", "a", "v", "e", " ", "y", "e", "l", "l", "o", "w", " ", "l", "e", "a", "v", "e", "s">>,
     schemes |-> <<"G", "o", "v", "e", "r", "n", "m", "e", "n", "t", " ", "s", "c", "h", "e", "m", "e", "s", " ", "f", "o", "r", " ", "f", "a", "r", "m", "e", "r", "s", " ", "i", "n", " ", "I", "n", "d", "i", "a">>,
     pest |-> <<" ", " ", "P", "E", "S", "T", " ", "a", "t", "t", "a", "c", "k", " ", "o", "n", " ", "C", "O", "T", "T", "O", "N", " ">>,
     python_crop |-> <<"P", "y", "t", "h", "o", "n", " ", "s", "c", "r", "i", "p", "t", " ", "f", "o", "r", " ", "c", "r", "o", "p", " ", "y", "i", "e", "l", "d">>,
     soil_chemistry |-> <<"S", "o", "i", "l", " ", "c", "h", "e", "m", "i", "s", "t", "r", "y", " ", "f", "o", "r", " ", "m", "y", " ", "c", "r", "o", "p">>,
     fertilizer |-> <<"W", "h", "i", "c", "h", " ", "f", "e", "r", "t", "i", "l", "i", "z", "e", "r", " ", "f", "o", "r", " ", "w", "h", "e", "a", "t">>,
     irrigation |-> <<"D", "r", "i", "p", " ", "i", "r", "r", "i", "g", "a", "t", "i", "o", "n", " ", "s", "c", "h", "e", "d", "u", "l", "e">>,
     harvest |-> <<"W", "h", "e", "n", " ", "t", "o", " ", "h", "a", "r", "v", "e", "s", "t", " ", "r", "i", "c", "e">>,
     disease |-> <<"P", "o", "t", "a", "t", "o", " ", "d", "i", "s", "e", "a", "s", "e", " ", "c", "o", "n", "t", "r", "o", "l">>]

Questions == {QuestionText[q] : q \in DOMAIN QuestionText}

\* the words _get_rule_based_response looks for
TopicWord ==
    [yellow |-> <<"y", "e", "l", "l", "o", "w">>,
     leaf |-> <<"l", "e", "a", "f">>,
     leaves |-> <<"l", "e", "a", "v", "e", "s">>,
     pest |-> <<"p", "e", "s", "t">>,
     fertilizer |-> <<"f", "e", "r", "t", "i", "l", "i", "z", "e", "r">>,
     water |-> <<"w", "a", "t", "e", "r">>,
     irrigation |-> <<"i", "r", "r", "i", "g", "a", "t", "i", "o", "n">>,
     harvest |-> <<"h", "a", "r", "v", "e", "s", "t">>,
     disease |-> <<"d", "i", "s", "e", "a", "s", "e">>]

\* the prefix _check_initialization asks for, and values of the environment
\* variable OPENROUTER_API_KEY
KeyText ==
    [prefix |-> <<"s", "k", "-", "o", "r", "-", "v", "1", "-">>,
     valid |-> <<"s", "k", "-", "o", "r", "-", "v", "1", "-", "a", "b", "c">>,
     other |-> <<"s", "k", "-", "a", "b", "c">>]

\* _is_agriculture_related from the deny-list check on
RelatedLower(question_lower) ==
    IF AnyIn(non_ag_patterns, question_lower) THEN FALSE
    ELSE IF AnyIn(strong_ag_keywords, question_lower) THEN TRUE
    ELSE /\ AnyIn(contextual_keywords, question_lower)
         /\ \/ AnyIn(ag_context_words, question_lower)
            \/ AnyIn(agricultural_phrases, question_lower)

\* the classifier with the allow-list consulted before the deny-list
_is_agriculture_related_allow_first(question) ==
    \/ AnyIn(strong_ag_keywords, Strip(Lower(question)))
    \/ RelatedLower(Strip(Lower(question)))

_is_agriculture_related(question) == RelatedLower(Strip(Lower(question)))

\* the first category of the dict with a keyword in the text
RECURSIVE FirstCategory(_, _)
FirstCategory(cats, text) ==
    IF Len(cats) = 0 THEN "general_farming"
    ELSE IF AnyIn(cats[1][2], text) THEN cats[1][1]
    ELSE FirstCategory(Tail(cats), text)

_categorize_question(question) ==
    IF ~_is_agriculture_related(question) THEN "non_agricultural"
    ELSE FirstCategory(categories, Lower(question))

OpenRouterService_categorize_question(question) ==
    FirstCategory(openrouter_categories, Lower(question))

\* datetime.now().month
Months == 1..12

_get_current_season(month) ==
    IF month \in {6, 7, 8, 9, 10} THEN "Kharif (Monsoon Season)"
    ELSE IF month \in {10, 11, 12, 1, 2, 3} THEN "Rabi (Winter Season)"
    ELSE "Zaid (Summer Season)"

\* the context argument: None, a dict, or a value of another type
NoContext == [t |-> "none", d |-> EmptyDict, truthy |-> FALSE]
DictContext(d) == [t |-> "dict", d |-> d, truthy |-> d # EmptyDict]
OtherContext(truthy) == [t |-> "other", d |-> EmptyDict, truthy |-> truthy]

\* _build_context: context.get raises AttributeError on a truthy value that
\* is no dict
_build_context(context, month) ==
    IF context.truthy /\ context.t # "dict" THEN [exc |-> TRUE, v |-> EmptyDict]
    ELSE [exc |-> FALSE,
          v |-> [location |-> GetField(context.d, "location", "India"),
                 state |-> GetField(context.d, "state", "General Region"),
                 crops |-> GetField(context.d, "crops", "Mixed crops"),
                 farm_size |-> GetField(context.d, "farm_size", "Small-Medium"),
                 experience |-> GetField(context.d, "experience", "Moderate"),
                 soil_type |-> GetField(context.d, "soil_type", "Not specified"),
                 irrigation |-> GetField(context.d, "irrigation", "Available"),
                 current_month |-> month,
                 current_season |-> _get_current_season(month),
                 farming_type |-> GetField(context.d, "farming_type", "Traditional")]]

\* the text _get_rule_based_response chooses, on the lower-cased question
RuleBasedText(question, question_lower, context) ==
    IF Contains(question_lower, TopicWord.yellow)
       /\ (Contains(question_lower, TopicWord.leaf) \/ Contains(question_lower, TopicWord.leaves))
    THEN [template |-> "yellowing_leaves"]
    ELSE IF Contains(question_lower, TopicWord.pest)
    THEN [template |-> "pest_control", current_season |-> context.current_season]
    ELSE IF Contains(question_lower, TopicWord.fertilizer)
    THEN [template |-> "fertilizer", location |-> context.location,
          current_season |-> context.current_season, soil_type |-> context.soil_type]
    ELSE IF Contains(question_lower, TopicWord.water) \/ Contains(question_lower, TopicWord.irrigation)
    THEN [template |-> "irrigation", location |-> context.location,
          current_season |-> context.current_season]
    ELSE IF Contains(question_lower, TopicWord.harvest)
    THEN [template |-> "harvest", current_season |-> context.current_season]
    ELSE IF Contains(question_lower, TopicWord.disease)
    THEN [template |-> "disease"]
    ELSE [template |-> "general", location |-> context.location,
          current_season |-> context.current_season, crops |-> context.crops,
          question |-> Take(question, 100)]

_get_rule_based_response(question, context) ==
    [success |-> TRUE,
     response |-> RuleBasedText(question, Lower(question), context),
     ai_service |-> "Agricultural Knowledge Base",
     confidence |-> "medium",
     formatted |-> TRUE,
     question_category |-> _categorize_question(question)]

_non_agricultural_response(question) ==
    [success |-> TRUE,
     response |-> [template |-> "redirect", question |-> Take(question, 100)],
     ai_service |-> "Agricultural Assistant",
     confidence |-> "high",
     formatted |-> TRUE,
     question_category |-> "non_agricultural"]

_error_response(question) ==
    [success |-> FALSE,
     response |-> [template |-> "service_issue", question |-> Take(question, 50)],
     ai_service |-> "Agricultural Assistant (Offline Mode)",
     confidence |-> "low",
     formatted |-> TRUE,
     error |-> "Service temporarily unavailable"]

\* OpenRouterService.__init__ reads the key from the environment
_check_initialization(api_key) ==
    IF api_key.t = "none" \/ api_key.s = <<>> THEN FALSE
    ELSE StartsWith(api_key.s, KeyText.prefix)

OpenRouterService(api_key) ==
    [api_key |-> api_key,
     model |-> "x-ai/grok-4-fast:free",
     is_initialized |-> _check_initialization(api_key)]

OpenRouterService_error_response(error_msg) ==
    [success |-> FALSE,
     response |-> [template |-> "unavailable", error_msg |-> error_msg],
     ai_service |-> "OpenRouter (Error)",
     confidence |-> "low",
     formatted |-> TRUE,
     error |-> error_msg]

\* what the post to the chat completions endpoint can end in: a response
\* with a status and a body, a timeout after 30 seconds, or another error
Upstreams ==
    [kind : {"response"}, status : {200}, body : {"choices", "no_choices", "malformed"}]
    \cup [kind : {"response"}, status : {401, 429, 500}, body : {"no_choices"}]
    \cup [kind : {"timeout", "error"}, status : {0}, body : {"no_choices"}]

\* OpenRouterService.get_agricultural_advice, with the number of posts made
OpenRouterService_get_agricultural_advice(self, question, upstream) ==
    IF ~self.is_initialized
    THEN [v |-> OpenRouterService_error_response(<<"OpenRouter service not initialized">>),
          posts |-> 0]
    ELSE [posts |-> 1,
          v |-> CASE upstream.kind = "timeout" ->
                       OpenRouterService_error_response(<<"Request timeout">>)
                  [] upstream.kind = "error" ->
                       OpenRouterService_error_response(<<"str(e)">>)
                  [] upstream.kind = "response" /\ upstream.status = 200 ->
                       ( CASE upstream.body = "choices" ->
                                [success |-> TRUE,
                                 response |-> [template |-> "content"],
                                 ai_service |-> "OpenRouter (x-ai/grok-4-fast:free)",
                                 confidence |-> "high",
                                 formatted |-> TRUE,
                                 question_category |->
                                     OpenRouterService_categorize_question(question)]
                           [] upstream.body = "no_choices" ->
                                OpenRouterService_error_response(
                                    <<"No response generated from model">>)
                           [] OTHER ->
                                OpenRouterService_error_response(<<"str(e)">>) )
                  [] upstream.kind = "response" /\ upstream.status = 401 ->
                       OpenRouterService_error_response(<<"Invalid API key">>)
                  [] upstream.kind = "response" /\ upstream.status = 429 ->
                       OpenRouterService_error_response(
                           <<"Rate limit reached, please try again later">>)
                  [] OTHER ->
                       OpenRouterService_error_response(
                           <<"OpenRouter API error: ", upstream.status>>)]

\* AgricultureChatbot.__init__
AgricultureChatbot(api_key) == [openrouter_service |-> OpenRouterService(api_key)]

\* a return of get_agricultural_advice: the dict, whether the OpenRouter
\* service was asked, and the posts it made
Advice(v, asked, posts) == [v |-> v, asked |-> asked, posts |-> posts]

\* get_agricultural_advice from the return of the OpenRouter service on
AfterOpenRouter(question, farmer_context, answered) ==
    IF answered.v.success THEN Advice(answered.v, 1, answered.posts)
    ELSE Advice(_get_rule_based_response(question, farmer_context), 1, answered.posts)

\* a chatbot that returns what the OpenRouter service returned, failed or not
AdviseFrom_no_fallback(self, question, farmer_context, upstream) ==
    IF self.openrouter_service.is_initialized
    THEN Advice(OpenRouterService_get_agricultural_advice(
                    self.openrouter_service, question, upstream).v, 1, 1)
    ELSE Advice(_get_rule_based_response(question, farmer_context), 0, 0)

\* get_agricultural_advice from the built context on
AdviseFrom(self, question, farmer_context, upstream) ==
    IF self.openrouter_service.is_initialized
    THEN AfterOpenRouter(question, farmer_context,
                         OpenRouterService_get_agricultural_advice(
                             self.openrouter_service, question, upstream))
    ELSE Advice(_get_rule_based_response(question, farmer_context), 0, 0)

\* get_agricultural_advice from the return of _build_context on
AdviseBuilt(self, question, built, upstream) ==
    IF built.exc THEN Advice(_error_response(question), 0, 0)
    ELSE AdviseFrom(self, question, built.v, upstream)

\* a chatbot that asks the OpenRouter service before it classifies
get_agricultural_advice_asking_first(self, question, context, month, upstream) ==
    IF self.openrouter_service.is_initialized /\ upstream.body = "choices"
    THEN AdviseBuilt(self, question, _build_context(context, month), upstream)
    ELSE IF ~_is_agriculture_related(question)
    THEN Advice(_non_agricultural_response(question), 0, 0)
    ELSE AdviseBuilt(self, question, _build_context(context, month), upstream)

get_agricultural_advice(self, question, context, month, upstream) ==
    IF ~_is_agriculture_related(question)
    THEN Advice(_non_agricultural_response(question), 0, 0)
    ELSE AdviseBuilt(self, question, _build_context(context, month), upstream)

\* ------------------------------------------------------------------------
\* main.py: POST /api/chat/agriculture
\* ------------------------------------------------------------------------
\* the dict user_context the handler builds from the request body
user_context(request) ==
    [location |-> GetField(request, "location", "India"),
     experience |-> GetField(request, "experience", "Beginner"),
     crops |-> GetField(request, "crops", "Mixed farming"),
     farm_size |-> GetField(request, "farm_size", "1-2 hectares"),
     season |-> GetField(request, "season", "Current season")]

\* the handler from the return of get_agricultural_advice on
agriculture_chat_response(message, context, advice) ==
    Advice([success |-> advice.v.success,
            message |-> message,
            response |-> advice.v.response,
            type |-> IF advice.v.success THEN "agriculture_advice" ELSE "error",
            source |-> GetField(advice.v, "ai_service", "Agricultural Expert"),
            confidence |-> GetField(advice.v, "confidence", "medium"),
            user_context |-> context,
            is_agriculture_related |-> advice.v.success],
           advice.asked, advice.posts)

\* the handler from the stripped message on
agriculture_chat_message(api_key, message, context, month, upstream) ==
    IF message = <<>>
    THEN Advice([success |-> FALSE, error |-> "Message is required", type |-> "error"],
                0, 0)
    ELSE agriculture_chat_response(
             message, context,
             get_agricultural_advice(AgricultureChatbot(api_key), message,
                                     DictContext(context), month, upstream))

\* request.get('message', '').strip() raises AttributeError on a message
\* that is no string, and the handler answers with its own error dict
agriculture_chat(api_key, request, month, upstream) ==
    IF GetField(request, "message", Str(<<>>)).t # "str"
    THEN Advice([success |-> FALSE, error |-> "str(e)",
                 response |-> [template |-> "technical_difficulties"],
                 type |-> "error"], 0, 0)
    ELSE agriculture_chat_message(api_key, Strip(GetField(request, "message", Str(<<>>)).s),
                                  user_context(request), month, upstream)

\* the message the handler hands to the chatbot, <<>> when it hands none
MessageOf(request) ==
    IF GetField(request, "message", Str(<<>>)).t # "str" THEN <<>>
    ELSE Strip(GetField(request, "message", Str(<<>>)).s)

\* ------------------------------------------------------------------------
\* Inputs of the chat calls
\* ------------------------------------------------------------------------
ApiKeys == {NoneV, Str(<<>>), Str(KeyText.valid), Str(KeyText.other)}

\* the months the three seasons are told apart by; October is in both lists
\* of _get_current_season
ChatMonths == {1, 5, 10}

Contexts ==
    {NoContext,
     DictContext(EmptyDict),
     DictContext([location |-> "Maharashtra", crops |-> "Tomato"]),
     DictContext([location |-> "Punjab", soil_type |-> "Loamy"]),
     OtherContext(FALSE),
     OtherContext(TRUE)}

ChatRequests ==
    {[message |-> Str(q)] : q \in Questions}
    \cup {[message |-> Str(q), location |-> "Punjab", crops |-> "Wheat"] :
              q \in {QuestionText.joke, QuestionText.tomatoes, QuestionText.fertilizer}}
    \cup {EmptyDict, [location |-> "Punjab"], [message |-> Str(<<" ", " ">>)],
          [message |-> NoneV], [message |-> Num(5)]}

NoChat == [st |-> "idle"]

\* ------------------------------------------------------------------------
\* services/crop_analytics.py: CropAnalyticsService.process_csv_upload, and
\* main.py: POST /api/upload/csv
\*
\* An uploaded file is its name and, when pandas can parse it, its header
\* and its rows of cell texts.  str(uuid.uuid4()) is a number that stands
\* for the identifier; uuid4 is taken to return no value twice.  Time
\* stamps and the processing time are left out.
\* ------------------------------------------------------------------------
\* the text of the cells and the file names of the uploads
CellText ==
    [empty |-> <<>>,
     F1 |-> <<" ", "F", "1", " ">>,
     F2 |-> <<"F", "2">>,
     Punjab |-> <<"P", "u", "n", "j", "a", "b">>,
     Ludhiana |-> <<"L", "u", "d", "h", "i", "a", "n", "a">>,
     Rice |-> <<"R", "i", "c", "e">>,
     twenty_five |-> <<"2", "5">>,
     two |-> <<"2">>,
     zero |-> <<"0">>,
     minus_five |-> <<"-", "5">>,
     abc |-> <<"a", "b", "c">>]

FileName ==
    [data_csv |-> <<"d", "a", "t", "a", ".", "c", "s", "v">>,
     data_txt |-> <<"d", "a", "t", "a", ".", "t", "x", "t">>,
     dot_csv |-> <<".", "c", "s", "v">>]

required_columns ==
    <<"field_name", "state", "district", "crop_type",
      "yield_per_hectare", "field_size_hectares">>

\* str.endswith(suffix)
EndsWith(s, suffix) ==
    Len(s) >= Len(suffix) /\ SubSeq(s, Len(s) - Len(suffix) + 1, Len(s)) = suffix

NaN == [t |-> "nan", n |-> 0, s |-> <<>>]

\* pd.isna
isna(cell) == cell.t = "nan"

IsNumeric(token) ==
    IsDigits(token) \/ (Len(token) > 1 /\ token[1] = "-" /\ IsDigits(Tail(token)))

ParseNumber(token) ==
    IF token[1] = "-" THEN 0 - DigitsToNat(Tail(token)) ELSE DigitsToNat(token)

\* pandas gives a column a numeric dtype when every cell that is not empty
\* is a number, and keeps the texts of all its cells otherwise
NumericColumn(rows, col) ==
    \A i \in 1..Len(rows) : rows[i][col] = CellText.empty \/ IsNumeric(rows[i][col])

ReadCell(rows, i, col) ==
    IF rows[i][col] = CellText.empty THEN NaN
    ELSE IF NumericColumn(rows, col) THEN Num(ParseNumber(rows[i][col]))
    ELSE Str(rows[i][col])

\* pd.read_csv(io.BytesIO(content)); it raises on a file without columns
read_csv(file) ==
    IF file.kind = "unparsable" THEN [exc |-> TRUE, v |-> <<>>]
    ELSE [exc |-> FALSE,
          v |-> [columns |-> file.columns,
                 rows |-> [i \in 1..Len(file.rows) |->
                              [col \in file.columns |-> ReadCell(file.rows, i, col)]]]]

\* the body of the loop of _validate_crop_data for one row: the error it
\* appends, or "valid".  row[...] <= 0 raises TypeError on a text.
RowVerdict(row) ==
    IF isna(row.field_name) \/ isna(row.state) \/ isna(row.crop_type)
    THEN "Missing required fields"
    ELSE IF ~isna(row.yield_per_hectare) /\ row.yield_per_hectare.t = "str"
    THEN "TypeError"
    ELSE IF ~isna(row.yield_per_hectare) /\ row.yield_per_hectare.n <= 0
    THEN "Invalid yield value"
    ELSE IF ~isna(row.field_size_hectares) /\ row.field_size_hectares.t = "str"
    THEN "TypeError"
    ELSE IF ~isna(row.field_size_hectares) /\ row.field_size_hectares.n <= 0
    THEN "Invalid field size"
    ELSE "valid"

\* the dict  valid_row
valid_row(row) ==
    [field_name |-> Strip(PyStr(row.field_name)),
     state |-> Strip(PyStr(row.state)),
     district |-> IF isna(row.district) THEN <<>> ELSE Strip(PyStr(row.district)),
     crop_type |-> Strip(PyStr(row.crop_type)),
     yield_per_hectare |->
         IF isna(row.yield_per_hectare) THEN 0 ELSE row.yield_per_hectare.n,
     field_size_hectares |->
         IF isna(row.field_size_hectares) THEN 0 ELSE row.field_size_hectares.n,
     data_source |-> "csv_upload"]

\* the lists the loop builds, row by row from row number idx + 1 on
RECURSIVE ValidRows(_, _)
ValidRows(rows, i) ==
    IF i > Len(rows) THEN <<>>
    ELSE (IF RowVerdict(rows[i]) = "valid" THEN <<valid_row(rows[i])>> ELSE <<>>)
         \o ValidRows(rows, i + 1)

RECURSIVE InvalidRows(_, _)
InvalidRows(rows, i) ==
    IF i > Len(rows) THEN <<>>
    ELSE (IF RowVerdict(rows[i]) = "valid" THEN <<>> ELSE <<rows[i]>>)
         \o InvalidRows(rows, i + 1)

RECURSIVE RowErrors(_, _)
RowErrors(rows, i) ==
    IF i > Len(rows) THEN <<>>
    ELSE (IF RowVerdict(rows[i]) = "valid" THEN <<>>
          ELSE <<[row |-> i, error |-> RowVerdict(rows[i])]>>)
         \o RowErrors(rows, i + 1)

_validate_crop_data(df) ==
    IF \E k \in 1..Len(required_columns) : required_columns[k] \notin df.columns
    THEN [valid_rows |-> <<>>, invalid_rows |-> df.rows,
          errors |-> <<[row |-> 0, error |-> "Missing required columns"]>>]
    ELSE [valid_rows |-> ValidRows(df.rows, 1),
          invalid_rows |-> InvalidRows(df.rows, 1),
          errors |-> RowErrors(df.rows, 1)]

\* a call that stamps nothing of its own on the records
_insert_crop_data_unstamped(data, batch_id) ==
    [i \in 1..Len(data) |->
        [upload_batch_id |-> 0] @@ data[i]]

\* _insert_crop_data: the records as insert_many gets them
_insert_crop_data(data, batch_id) ==
    [i \in 1..Len(data) |->
        [upload_batch_id |-> batch_id] @@ data[i]]

\* _record_upload_batch: the record insert_one gets
_record_upload_batch(batch_id, filename, file_size, total_rows, valid_rows, invalid_rows, user_id) ==
    [batch_id |-> batch_id,
     filename |-> filename,
     file_size |-> file_size,
     total_rows |-> total_rows,
     valid_rows |-> valid_rows,
     invalid_rows |-> invalid_rows,
     processing_status |-> "completed",
     user_id |-> user_id]

\* a result that carries every error message
UploadResult_all_errors(batch_id, total_rows, validation) ==
    [success |-> TRUE,
     upload_batch_id |-> batch_id,
     total_rows |-> total_rows,
     valid_rows |-> Len(validation.valid_rows),
     invalid_rows |-> Len(validation.invalid_rows),
     errors |-> validation.errors]

\* the dict process_csv_upload returns
UploadResult(batch_id, total_rows, validation) ==
    [success |-> TRUE,
     upload_batch_id |-> batch_id,
     total_rows |-> total_rows,
     valid_rows |-> Len(validation.valid_rows),
     invalid_rows |-> Len(validation.invalid_rows),
     errors |-> Take(validation.errors, 10)]

\* ------------------------------------------------------------------------
\* Inputs of the uploads
\* ------------------------------------------------------------------------
AllColumns ==
    {"field_name", "state", "district", "crop_type",
     "yield_per_hectare", "field_size_hectares"}

Row(field_name, state, district, crop_type, yield_per_hectare, field_size_hectares) ==
    [field_name |-> field_name, state |-> state, district |-> district,
     crop_type |-> crop_type, yield_per_hectare |-> yield_per_hectare,
     field_size_hectares |-> field_size_hectares]

GoodRow == Row(CellText.F1, CellText.Punjab, CellText.Ludhiana, CellText.Rice, CellText.twenty_five, CellText.two)

\* the rows cut down to the columns of the header
Csv(filename, columns, rows) ==
    [kind |-> "csv", filename |-> filename, columns |-> columns,
     rows |-> [i \in 1..Len(rows) |-> [col \in columns |-> rows[i][col]]],
     size |-> 64 * (Len(rows) + 1)]

UploadFiles ==
    {Csv(FileName.data_csv, AllColumns,
         <<GoodRow,
           Row(CellText.F2, CellText.Punjab, CellText.empty, CellText.Rice, CellText.twenty_five, CellText.two),
           Row(CellText.F2, CellText.Punjab, CellText.Ludhiana, CellText.Rice, CellText.empty, CellText.two),
           Row(CellText.F2, CellText.Punjab, CellText.Ludhiana, CellText.Rice, CellText.twenty_five, CellText.empty)>>),
     Csv(FileName.data_csv, AllColumns,
         <<Row(CellText.empty, CellText.Punjab, CellText.Ludhiana, CellText.Rice, CellText.twenty_five, CellText.two),
           Row(CellText.F2, CellText.empty, CellText.Ludhiana, CellText.Rice, CellText.twenty_five, CellText.two),
           Row(CellText.F2, CellText.Punjab, CellText.Ludhiana, CellText.empty, CellText.twenty_five, CellText.two),
           Row(CellText.F2, CellText.Punjab, CellText.Ludhiana, CellText.Rice, CellText.zero, CellText.two),
           Row(CellText.F2, CellText.Punjab, CellText.Ludhiana, CellText.Rice, CellText.minus_five, CellText.two),
           Row(CellText.F2, CellText.Punjab, CellText.Ludhiana, CellText.Rice, CellText.twenty_five, CellText.zero),
           GoodRow>>
         \o [i \in 1..5 |-> Row(CellText.F2, CellText.Punjab, CellText.Ludhiana, CellText.Rice, CellText.zero, CellText.two)]),
     Csv(FileName.data_csv, AllColumns,
         <<Row(CellText.F2, CellText.Punjab, CellText.Ludhiana, CellText.Rice, CellText.abc, CellText.two), GoodRow>>),
     Csv(FileName.data_csv, AllColumns, <<GoodRow, GoodRow>>),
     Csv(FileName.data_csv, AllColumns, <<>>),
     Csv(FileName.data_csv, AllColumns \ {"district"}, <<GoodRow>>),
     Csv(FileName.data_txt, AllColumns, <<GoodRow>>),
     [kind |-> "unparsable", filename |-> FileName.data_csv, columns |-> {}, rows |-> <<>>,
      size |-> 0]}

\* what auth_service.verify_token makes of the request's token
Users == {None, "farmer_1"}

\* the values uuid4 can return
UUIDs == 1..MaxUploads

\* an upload keeps the records it inserted and the batch record it wrote
NoUpload == [pc |-> "idle", inserted |-> <<>>, recorded |-> <<>>]

\* a request that ended with an HTTP status
Ended(upload, status, body) ==
    [pc |-> "done", file |-> upload.file, status |-> status, body |-> body,
     inserted |-> upload.inserted, recorded |-> upload.recorded]

\* ------------------------------------------------------------------------
\* services/crop_analytics.py: CropAnalyticsService.get_crop_data, and
\* main.py: GET /api/crop-data
\* ------------------------------------------------------------------------
\* models/schemas.py: CropDataResponse(**doc).  The texts of a stored record
\* are strings and its upload_batch_id stands for one; yield_per_hectare and
\* field_size_hectares are declared  Field(..., gt=0)  and upload_batch_id
\* is required: a document that fails one of them raises ValidationError.
CropDataResponse(doc) ==
    IF /\ "upload_batch_id" \in DOMAIN doc
       /\ doc.yield_per_hectare > 0
       /\ doc.field_size_hectares > 0
    THEN Ok(doc)
    ELSE Raise

\* collection.find({}).skip(offset).limit(limit)
Documents(collection, limit, offset) ==
    SubSeq(collection, offset + 1, Min2(offset + limit, Len(collection)))

\* the loop over the documents: the first one that fails ends the call
get_crop_data(collection, limit, offset) ==
    IF \E i \in 1..Len(Documents(collection, limit, offset)) :
           CropDataResponse(Documents(collection, limit, offset)[i]).exc
    THEN Raise
    ELSE Ok(Documents(collection, limit, offset))

\* the handler from the return of analytics_service.get_crop_data on
route_get_crop_data(limit, offset, out) ==
    IF out.exc
    THEN [st |-> "answered", limit |-> limit, offset |-> offset, status |-> 500,
          body |-> [detail |-> "Failed to fetch crop data"]]
    ELSE [st |-> "answered", limit |-> limit, offset |-> offset, status |-> 200,
          body |-> [i \in 1..Len(out.v) |-> out.v[i].field_name]]

\* a request of GET /api/crop-data that was not made
NoRead == [st |-> "idle"]


CsvIdle ==
    /\ crop_data = <<>>
    /\ upload_batches = <<>>
    /\ issued = {}
    /\ uploads = [u \in 1..MaxUploads |-> NoUpload]
    /\ crop_read = NoRead

\* ------------------------------------------------------------------------
\* main.py: GET /farmer/crop-prices
\*
\* A query parameter is a sequence of characters, <<>> when it is absent
\* or empty.  The price filters only reach the upstream query and are left
\* out, and so is the timestamp of the answer.
\* ------------------------------------------------------------------------
\* the list  fallback_data  of get_crop_prices; state and commodity, which the
\* filters inspect, are sequences of characters
fallback_data ==
  <<
    [state |-> <<"K", "a", "r", "n", "a", "t", "a", "k", "a">>,
     district |-> "Bangalore Urban", market |-> "KR Market",
     commodity |-> <<"R", "i", "c", "e">>,
     variety |-> "Common", grade |-> "FAQ", arrival_date |-> "2024-01-15",
     min_price |-> "2800", max_price |-> "3200", modal_price |-> "3000"],
    [state |-> <<"K", "a", "r", "n", "a", "t", "a", "k", "a">>,
     district |-> "Mysore", market |-> "Mysore Market",
     commodity |-> <<"W", "h", "e", "a", "t">>,
     variety |-> "Desi", grade |-> "FAQ", arrival_date |-> "2024-01-15",
     min_price |-> "2200", max_price |-> "2500", modal_price |-> "2350"],
    [state |-> <<"K", "a", "r", "n", "a", "t", "a", "k", "a">>,
     district |-> "Hassan", market |-> "Hassan Market",
     commodity |-> <<"M", "a", "i", "z", "e">>,
     variety |-> "Hybrid", grade |-> "FAQ", arrival_date |-> "2024-01-15",
     min_price |-> "1800", max_price |-> "2100", modal_price |-> "1950"],
    [state |-> <<"K", "a", "r", "n", "a", "t", "a", "k", "a">>,
     district |-> "Tumkur", market |-> "Tumkur Market",
     commodity |-> <<"C", "o", "t", "t", "o", "n">>,
     variety |-> "Medium Staple", grade |-> "FAQ", arrival_date |-> "2024-01-15",
     min_price |-> "5200", max_price |-> "5800", modal_price |-> "5500"],
    [state |-> <<"K", "a", "r", "n", "a", "t", "a", "k", "a">>,
     district |-> "Belgaum", market |-> "Belgaum Market",
     commodity |-> <<"S", "u", "g", "a", "r", "c", "a", "n", "e">>,
     variety |-> "Common", grade |-> "FAQ", arrival_date |-> "2024-01-15",
     min_price |-> "300", max_price |-> "380", modal_price |-> "340"],
    [state |-> <<"T", "a", "m", "i", "l", " ", "N", "a", "d", "u">>,
     district |-> "Chennai", market |-> "Koyambedu Market",
     commodity |-> <<"R", "i", "c", "e">>,
     variety |-> "Ponni", grade |-> "FAQ", arrival_date |-> "2024-01-15",
     min_price |-> "2900", max_price |-> "3300", modal_price |-> "3100"],
    [state |-> <<"M", "a", "h", "a", "r", "a", "s", "h", "t", "r", "a">>,
     district |-> "Pune", market |-> "Pune Market",
     commodity |-> <<"W", "h", "e", "a", "t">>,
     variety |-> "Lokvan", grade |-> "FAQ", arrival_date |-> "2024-01-15",
     min_price |-> "2300", max_price |-> "2600", modal_price |-> "2450"],
    [state |-> <<"P", "u", "n", "j", "a", "b">>,
     district |-> "Ludhiana", market |-> "Ludhiana Market",
     commodity |-> <<"W", "h", "e", "a", "t">>,
     variety |-> "PBW", grade |-> "FAQ", arrival_date |-> "2024-01-15",
     min_price |-> "2400", max_price |-> "2700", modal_price |-> "2550"],
    [state |-> <<"H", "a", "r", "y", "a", "n", "a">>,
     district |-> "Karnal", market |-> "Karnal Market",
     commodity |-> <<"R", "i", "c", "e">>,
     variety |-> "Basmati", grade |-> "FAQ", arrival_date |-> "2024-01-15",
     min_price |-> "4500", max_price |-> "5200", modal_price |-> "4850"],
    [state |-> <<"U", "t", "t", "a", "r", " ", "P", "r", "a", "d", "e", "s", "h">>,
     district |-> "Meerut", market |-> "Meerut Market",
     commodity |-> <<"S", "u", "g", "a", "r", "c", "a", "n", "e">>,
     variety |-> "Co-238", grade |-> "FAQ", arrival_date |-> "2024-01-15",
     min_price |-> "320", max_price |-> "400", modal_price |-> "360"]
  >>

\* the list  sample_data  of get_crop_prices: the same five records as the
\* first five of fallback_data
sample_data == SubSeq(fallback_data, 1, 5)

\* values of the query parameters
QueryText ==
    [Karnataka |-> <<"K", "a", "r", "n", "a", "t", "a", "k", "a">>,
     punjab |-> <<"p", "u", "n", "j", "a", "b">>,
     wheat |-> <<"w", "h", "e", "a", "t">>,
     Tea |-> <<"T", "e", "a">>,
     twenty |-> <<"2", "0">>,
     two |-> <<"2">>,
     zero |-> <<"0">>,
     one |-> <<"1">>,
     seven |-> <<"7">>,
     abc |-> <<"a", "b", "c">>]

\* int(s): ValueError on a text that is no integer
PyInt(s) == IF IsNumeric(s) THEN Ok(ParseNumber(s)) ELSE Raise

\* lst[a:b] for a >= 0 and b >= 0
PySlice(lst, a, b) == SubSeq(lst, a + 1, Min2(b, Len(lst)))

\* [item for item in records if commodity.lower() in item["commodity"].lower()]
ByCommodity(records, commodity) ==
    SelectSeq(records, LAMBDA item : Contains(Lower(item.commodity), Lower(commodity)))

\* [item for item in records if state.lower() in item["state"].lower()]
ByState(records, state) ==
    SelectSeq(records, LAMBDA item : Contains(Lower(item.state), Lower(state)))

\* what the GET to api.data.gov.in can end in: a response with a status and
\* a body, or an httpx.RequestError (no connection, or the 30 second timeout)
PriceUpstreams ==
    [kind : {"response"}, status : {200},
     body : {"records", "records_no_total", "empty_records", "no_records",
             "unparsable", "number"}]
    \cup [kind : {"response"}, status : {404, 500}, body : {"unparsable"}]
    \cup [kind : {"connect_error", "timeout"}, status : {0}, body : {"unparsable"}]

\* the records of an upstream answer that has some
upstream_records == <<"record 1", "record 2", "record 3">>

PriceAnswer(status, body) == [status |-> status, body |-> body]

\* the page of the answer: records, total and count
Page(records, limit_int, offset_int) ==
    [records |-> PySlice(records, offset_int, offset_int + limit_int),
     total |-> Len(records),
     count |-> Min2(limit_int, Len(records) - offset_int)]

\* the branch of except httpx.RequestError
FallbackAnswer(state, commodity, limit_int, offset_int) ==
    PriceAnswer(200,
        [success |-> TRUE,
         data |-> Page(IF commodity # <<>>
                       THEN ByCommodity(IF state # <<>> /\ state # QueryText.Karnataka
                                        THEN ByState(fallback_data, state)
                                        ELSE fallback_data, commodity)
                       ELSE IF state # <<>> /\ state # QueryText.Karnataka
                            THEN ByState(fallback_data, state)
                            ELSE fallback_data,
                       limit_int, offset_int),
         source |-> "Fallback Sample Data",
         note |-> "API temporarily unavailable. Showing sample data for demonstration."])

\* the branch of an upstream answer without records
SampleAnswer(commodity, limit_int, offset_int) ==
    PriceAnswer(200,
        [success |-> TRUE,
         data |-> Page(IF commodity # <<>> THEN ByCommodity(sample_data, commodity)
                       ELSE sample_data, limit_int, offset_int),
         source |-> "Sample Data - AgMarkNet Integration",
         note |-> "Displaying sample data. Real API integration may require additional authentication."])

\* the handler from the outcome of client.get on: raise_for_status raises
\* httpx.HTTPStatusError, which is no RequestError, and response.json()
\* raises json.JSONDecodeError, which is a ValueError
PricesFrom(state, commodity, limit_int, offset_int, upstream) ==
    IF upstream.kind # "response"
    THEN FallbackAnswer(state, commodity, limit_int, offset_int)
    ELSE IF upstream.status # 200
    THEN PriceAnswer(500, [detail |-> "Failed to fetch crop prices"])
    ELSE IF upstream.body = "unparsable"
    THEN PriceAnswer(400, [detail |-> "Invalid parameter values"])
    ELSE IF upstream.body = "number"
    THEN PriceAnswer(500, [detail |-> "Failed to fetch crop prices"])
    ELSE IF upstream.body \in {"records", "records_no_total"}
    THEN PriceAnswer(200,
             [success |-> TRUE,
              data |-> [records |-> upstream_records,
                        total |-> IF upstream.body = "records" THEN 57
                                  ELSE Len(upstream_records),
                        count |-> Len(upstream_records)],
              source |-> "AgMarkNet - Government of India"])
    ELSE SampleAnswer(commodity, limit_int, offset_int)

\* the handler from the converted limit and offset on
PricesPaged(state, commodity, limit_int, offset_int, upstream) ==
    IF limit_int.exc \/ offset_int.exc
    THEN PriceAnswer(400, [detail |-> "Invalid parameter values"])
    ELSE PricesFrom(state, commodity, limit_int.v, offset_int.v, upstream)

get_crop_prices(state, commodity, limit, offset, upstream) ==
    PricesPaged(state, commodity,
                IF limit # <<>> THEN PyInt(limit) ELSE Ok(20),
                IF offset # <<>> THEN PyInt(offset) ELSE Ok(0),
                upstream)

\* ------------------------------------------------------------------------
\* Inputs of the price requests
\* ------------------------------------------------------------------------
PriceQueries ==
    [state : {QueryText.Karnataka, QueryText.punjab, <<>>},
     commodity : {<<>>, QueryText.wheat, QueryText.Tea},
     limit : {QueryText.twenty, QueryText.two, QueryText.abc, <<>>},
     offset : {QueryText.zero, QueryText.one, QueryText.seven}]

NoPrices == [st |-> "idle"]

\* ------------------------------------------------------------------------
\* services/weather_service.py: WeatherService.get_agricultural_weather
\*
\* Temperatures, humidity and rainfall are in tenths.  What the random
\* module returns in one call is a draw; the seven days of a forecast are
\* drawn like the current values, and one draw stands for all of them.
\* ------------------------------------------------------------------------
WeatherText ==
    [google_key |-> <<"A", "I", "z", "a", "S", "y", "1">>,
     other_key |-> <<"w", "k", "1">>,
     AIza |-> <<"A", "I", "z", "a">>,
     Pune |-> <<"P", "u", "n", "e">>,
     Punjab_Pune |-> <<"P", "u", "n", "j", "a", "b", ",", " ", "P", "u", "n", "e">>,
     Atlantis |-> <<"A", "t", "l", "a", "n", "t", "i", "s">>]

\* bool(x) of a setting that is None or a string
Truthy(x) == x.t = "str" /\ x.s # <<>>

mock_conditions == <<"Clear", "Partly Cloudy", "Cloudy", "Light Rain", "Sunny">>

enhanced_conditions ==
    <<"Clear Sky", "Partly Cloudy", "Mostly Cloudy", "Light Rain", "Sunny", "Overcast">>

\* the days of a forecast
Forecast(condition, humidity, rainfall) ==
    [day \in 1..7 |->
        [day |-> day, condition |-> condition, humidity |-> humidity,
         rainfall |-> rainfall]]

_generate_mock_weather_data(draw) ==
    [temperature |-> Num(draw.temperature),
     humidity |-> Num(draw.humidity),
     rainfall |-> Num(draw.rainfall),
     wind_speed |-> Num(draw.wind_speed),
     condition |-> mock_conditions[draw.condition],
     forecast |-> Forecast(mock_conditions[draw.condition], draw.humidity, draw.rainfall)]

base_temps ==
    << [region |-> <<"d", "e", "l", "h", "i">>, temp |-> 25],
       [region |-> <<"m", "u", "m", "b", "a", "i">>, temp |-> 28],
       [region |-> <<"b", "a", "n", "g", "a", "l", "o", "r", "e">>, temp |-> 22],
       [region |-> <<"c", "h", "e", "n", "n", "a", "i">>, temp |-> 30],
       [region |-> <<"k", "o", "l", "k", "a", "t", "a">>, temp |-> 27],
       [region |-> <<"p", "u", "n", "e">>, temp |-> 24],
       [region |-> <<"h", "y", "d", "e", "r", "a", "b", "a", "d">>, temp |-> 26],
       [region |-> <<"a", "h", "m", "e", "d", "a", "b", "a", "d">>, temp |-> 29],
       [region |-> <<"p", "u", "n", "j", "a", "b">>, temp |-> 23],
       [region |-> <<"h", "a", "r", "y", "a", "n", "a">>, temp |-> 24],
       [region |-> <<"u", "t", "t", "a", "r", " ", "p", "r", "a", "d", "e", "s", "h">>, temp |-> 26],
       [region |-> <<"b", "i", "h", "a", "r">>, temp |-> 27],
       [region |-> <<"w", "e", "s", "t", " ", "b", "e", "n", "g", "a", "l">>, temp |-> 28],
       [region |-> <<"r", "a", "j", "a", "s", "t", "h", "a", "n">>, temp |-> 31],
       [region |-> <<"g", "u", "j", "a", "r", "a", "t">>, temp |-> 29],
       [region |-> <<"m", "a", "h", "a", "r", "a", "s", "h", "t", "r", "a">>, temp |-> 27],
       [region |-> <<"k", "a", "r", "n", "a", "t", "a", "k", "a">>, temp |-> 24],
       [region |-> <<"t", "a", "m", "i", "l", " ", "n", "a", "d", "u">>, temp |-> 29],
       [region |-> <<"a", "n", "d", "h", "r", "a", " ", "p", "r", "a", "d", "e", "s", "h">>, temp |-> 28],
       [region |-> <<"t", "e", "l", "a", "n", "g", "a", "n", "a">>, temp |-> 27],
       [region |-> <<"k", "e", "r", "a", "l", "a">>, temp |-> 26],
       [region |-> <<"o", "d", "i", "s", "h", "a">>, temp |-> 28] >>

\* the temperature of the first region whose name is in the location, 25
\* when there is none
RECURSIVE BaseTemp(_, _)
BaseTemp(location_lower, i) ==
    IF i > Len(base_temps) THEN 25
    ELSE IF Contains(location_lower, base_temps[i].region) THEN base_temps[i].temp
    ELSE BaseTemp(location_lower, i + 1)

_generate_enhanced_mock_weather_data(location, draw) ==
    [temperature |-> Num(10 * BaseTemp(Lower(location), 1) + draw.variation),
     humidity |-> Num(draw.humidity),
     rainfall |-> Num(draw.rainfall),
     wind_speed |-> Num(draw.wind_speed),
     condition |-> enhanced_conditions[draw.condition],
     forecast |-> Forecast(enhanced_conditions[draw.condition], draw.humidity,
                           draw.rainfall),
     location_resolved |-> location]

\* what the two GETs to api.weatherapi.com can end in
WeatherUpstreams ==
    {"connect_error", "http_error", "unparsable", "no_current", "null_values", "ok"}

\* the values of an answer of the provider; JSON null where it has none
ProviderValue(upstream, tenths) == IF upstream = "null_values" THEN NoneV ELSE Num(tenths)

\* _get_weatherapi_data: requests.get, raise_for_status, json() and the
\* subscripts raise on an answer that is not the documented one
_get_weatherapi_data(upstream) ==
    IF upstream \in {"connect_error", "http_error", "unparsable", "no_current"}
    THEN Raise
    ELSE Ok([temperature |-> ProviderValue(upstream, 281),
             humidity |-> ProviderValue(upstream, 630),
             rainfall |-> ProviderValue(upstream, 12),
             wind_speed |-> ProviderValue(upstream, 94),
             condition |-> "Mist",
             forecast |-> Forecast("Mist", 630, 12),
             real_data |-> TRUE,
             location_resolved |-> "resolved"])

\* _get_openweather_data returns None on both of its paths
_get_openweather_data == [none |-> TRUE]

_get_google_weather_data(location, draw) ==
    IF ~_get_openweather_data.none THEN Ok(_get_openweather_data)
    ELSE Ok([real_data |-> FALSE,
             api_source |-> "Enhanced Mock (Google API key detected)"]
            @@ _generate_enhanced_mock_weather_data(location, draw))

_get_real_weather_data(api_key, location, upstream, draw) ==
    IF ~Truthy(api_key) THEN Raise
    ELSE IF StartsWith(api_key.s, WeatherText.AIza)
    THEN _get_google_weather_data(location, draw)
    ELSE _get_weatherapi_data(upstream)

\* a comparison of None with a number raises TypeError
Advised(condition, text) == IF condition THEN <<text>> ELSE <<>>

_generate_agricultural_advice(weather_data) ==
    IF weather_data.temperature.t # "num" \/ weather_data.humidity.t # "num"
       \/ weather_data.rainfall.t # "num"
    THEN Raise
    ELSE Ok(Advised(weather_data.temperature.n > 350, "High temperature alert")
            \o Advised(weather_data.temperature.n <= 350 /\ weather_data.temperature.n < 150,
                       "Low temperature warning")
            \o Advised(/\ weather_data.temperature.n <= 350
                       /\ weather_data.temperature.n >= 150
                       /\ 200 <= weather_data.temperature.n
                       /\ weather_data.temperature.n <= 300,
                       "Optimal temperature range")
            \o <<IF weather_data.humidity.n > 800 THEN "High humidity"
                 ELSE IF weather_data.humidity.n < 400 THEN "Low humidity"
                 ELSE "Humidity levels are favorable">>
            \o Advised(weather_data.rainfall.n > 250, "Heavy rainfall expected")
            \o Advised(weather_data.rainfall.n <= 250 /\ weather_data.rainfall.n > 100,
                       "Moderate rainfall")
            \o Advised(weather_data.rainfall.n <= 100 /\ weather_data.rainfall.n < 20,
                       "Dry conditions")
            \o Advised(weather_data.condition = "Clear", "Clear weather")
            \o Advised(weather_data.condition = "Light Rain", "Light rain")
            \o Advised(weather_data.condition = "Cloudy", "Cloudy conditions")
            \o <<"Consider seasonal crop calendar", "Monitor soil moisture levels regularly">>)

\* the dict get_agricultural_weather returns, or the exception it re-raises
WeatherResult(api_key, location, weather_data, agricultural_advice) ==
    IF agricultural_advice.exc THEN Raise
    ELSE Ok([location |-> location,
             temperature |-> weather_data.temperature,
             humidity |-> weather_data.humidity,
             rainfall |-> weather_data.rainfall,
             wind_speed |-> weather_data.wind_speed,
             weather_condition |-> weather_data.condition,
             agricultural_advice |-> agricultural_advice.v,
             forecast |-> GetField(weather_data, "forecast", <<>>),
             data_source |->
                 IF Truthy(api_key) /\ GetField(weather_data, "real_data", FALSE)
                 THEN "real_api" ELSE "mock"])

WeatherFrom(api_key, location, weather_data) ==
    WeatherResult(api_key, location, weather_data,
                  _generate_agricultural_advice(weather_data))

\* the service from the outcome of _get_real_weather_data on
WeatherAfterReal(api_key, location, real, draw) ==
    WeatherFrom(api_key, location,
                IF real.exc THEN _generate_mock_weather_data(draw) ELSE real.v)

\* a service whose call of the provider is not guarded
get_agricultural_weather_unguarded(api_key, location, upstream, draw) ==
    IF _get_real_weather_data(api_key, location, upstream, draw).exc THEN Raise
    ELSE WeatherAfterReal(api_key, location,
                          _get_real_weather_data(api_key, location, upstream, draw), draw)

get_agricultural_weather(api_key, location, upstream, draw) ==
    IF Truthy(api_key)
    THEN WeatherAfterReal(api_key, location,
                          _get_real_weather_data(api_key, location, upstream, draw), draw)
    ELSE WeatherFrom(api_key, location, _generate_mock_weather_data(draw))

\* ------------------------------------------------------------------------
\* Inputs of the weather calls
\* ------------------------------------------------------------------------
\* settings.WEATHER_API_KEY
WeatherKeys ==
    {NoneV, Str(<<>>), Str(WeatherText.google_key), Str(WeatherText.other_key)}

Locations == {WeatherText.Pune, WeatherText.Punjab_Pune, WeatherText.Atlantis}

Draws ==
    [temperature : {200, 400}, humidity : {400, 900}, rainfall : {0, 500},
     wind_speed : {50}, condition : {1, 4}, variation : {0 - 30, 70}]

NoWeather == [st |-> "idle"]

\* ------------------------------------------------------------------------
\* main.py: the chat endpoints POST /api/chat/agriculture, /api/ai/chat,
\* /api/test/chat and /farmer/chat, and the exception handlers of the app
\*
\* What a handler ends in is a dict it returns, which FastAPI sends with
\* HTTP 200, an HTTPException, or another exception.  The text of an
\* exception, str(e), is the string "str(e)".
\* ------------------------------------------------------------------------
Returns(body) == [kind |-> "return", body |-> body]
RaisedHTTP(status_code, detail) ==
    [kind |-> "http_exception", status_code |-> status_code, detail |-> detail]
RaisedOther == [kind |-> "exception"]

http_exception_handler(exc) ==
    [status |-> exc.status_code,
     body |-> [error |-> TRUE, message |-> exc.detail, status_code |-> exc.status_code]]

general_exception_handler ==
    [status |-> 500,
     body |-> [error |-> TRUE, message |-> "Internal server error", status_code |-> 500]]

\* the response the app sends for what the handler ended in
Respond(outcome) ==
    CASE outcome.kind = "return" -> [status |-> 200, body |-> outcome.body]
      [] outcome.kind = "http_exception" -> http_exception_handler(outcome)
      [] outcome.kind = "exception" -> general_exception_handler

\* bool(x) of a value of a JSON body
PyTruthy(x) == (x.t = "str" /\ x.s # <<>>) \/ (x.t = "num" /\ x.n # 0)

\* the context dict of /api/ai/chat, /api/test/chat and /farmer/chat, which
\* differ in three of its defaults
chat_context(request, crops, farm_size, soil_type) ==
    [location |-> GetField(request, "location", "India"),
     state |-> GetField(request, "state", "General Region"),
     crops |-> GetField(request, "crops", crops),
     farm_size |-> GetField(request, "farm_size", farm_size),
     experience |-> GetField(request, "experience", "Moderate"),
     soil_type |-> GetField(request, "soil_type", soil_type),
     irrigation |-> GetField(request, "irrigation", "Available"),
     farming_type |-> GetField(request, "farming_type", "Traditional")]

\* POST /api/chat/agriculture; its except branch reads no local name
agriculture_chat_handler(import_fails, api_key, request, month, upstream) ==
    IF import_fails
    THEN Returns([success |-> FALSE, error |-> "str(e)",
                   response |-> [template |-> "technical_difficulties"],
                   type |-> "error"])
    ELSE Returns(agriculture_chat(api_key, request, month, upstream).v)

\* request.get('message') or request.get('text') or ''
MessageOrText(request) ==
    IF PyTruthy(GetField(request, "message", NoneV)) THEN request.message
    ELSE IF PyTruthy(GetField(request, "text", NoneV)) THEN request.text
    ELSE Str(<<>>)

ai_chat_result(message, result) ==
    Returns([success |-> GetField(result, "success", TRUE),
              message |-> message,
              response |-> GetField(result, "response", "Unable to generate response"),
              ai_service |-> GetField(result, "ai_service", "Agricultural Expert"),
              confidence |-> GetField(result, "confidence", "medium"),
              formatted |-> GetField(result, "formatted", TRUE),
              question_category |-> GetField(result, "question_category", "general")])

\* POST /api/ai/chat
ai_chat(import_fails, api_key, request, month, upstream) ==
    IF import_fails \/ MessageOrText(request).t # "str"
    THEN Returns([success |-> FALSE, error |-> "str(e)",
                   message |-> "AI chat service encountered an error"])
    ELSE IF Strip(MessageOrText(request).s) = <<>>
    THEN Returns([success |-> FALSE, error |-> "Message is required", type |-> "error"])
    ELSE ai_chat_result(
             Strip(MessageOrText(request).s),
             get_agricultural_advice(AgricultureChatbot(api_key),
                                     Strip(MessageOrText(request).s),
                                     DictContext(chat_context(request, "Mixed crops", "Small-Medium",
                                                              "Not specified")),
                                     month, upstream).v)

agricultural_chat_test_result(text, context, advice) ==
    Returns([success |-> GetField(advice, "success", TRUE),
             query |-> text,
             response |-> GetField(advice, "response", "Unable to generate response"),
             ai_service |-> GetField(advice, "ai_service", "Agricultural Expert"),
             confidence |-> GetField(advice, "confidence", "medium"),
             formatted |-> GetField(advice, "formatted", TRUE),
             question_category |-> GetField(advice, "question_category", "general"),
             context |-> context])

\* POST /api/test/chat: its except branch formats text[:100], which raises
\* UnboundLocalError when the import failed and TypeError on a number
agricultural_chat_test(import_fails, api_key, request, month, upstream) ==
    IF import_fails THEN RaisedOther
    ELSE IF ~PyTruthy(GetField(request, "text", Str(<<>>)))
    THEN Returns([success |-> FALSE, error |-> "Message text is required",
                   message |-> "Please provide a 'text' field in your request"])
    ELSE IF request.text.t # "str" THEN RaisedOther
    ELSE IF Strip(request.text.s) = <<>>
    THEN Returns([success |-> FALSE, error |-> "Message text is required",
                   message |-> "Please provide a 'text' field in your request"])
    ELSE agricultural_chat_test_result(
             request.text.s, chat_context(request, "Mixed crops", "2-5 hectares", "Loamy"),
             get_agricultural_advice(AgricultureChatbot(api_key), request.text.s,
                                     DictContext(chat_context(request, "Mixed crops", "2-5 hectares", "Loamy")),
                                     month, upstream).v)

authenticated_farmer_chat_result(context, advice) ==
    Returns([success |-> GetField(advice, "success", TRUE),
             response |-> GetField(advice, "response", "Unable to generate response"),
             ai_service |-> GetField(advice, "ai_service", "Agricultural Expert"),
             confidence |-> GetField(advice, "confidence", "high"),
             formatted |-> GetField(advice, "formatted", TRUE),
             question_category |-> GetField(advice, "question_category", "general"),
             user_context |-> context])

\* POST /farmer/chat: get_current_user, then the handler; its except branch
\* formats text[:100], which raises UnboundLocalError when the import
\* failed and TypeError on a number
authenticated_farmer_chat(user, import_fails, api_key, request, month, upstream) ==
    IF user = None THEN RaisedHTTP(401, "Invalid authentication credentials")
    ELSE IF import_fails THEN RaisedOther
    ELSE IF ~PyTruthy(GetField(request, "text", Str(<<>>)))
    THEN RaisedHTTP(400, "Message text is required")
    ELSE IF request.text.t # "str" THEN RaisedOther
    ELSE IF Strip(request.text.s) = <<>>
    THEN RaisedHTTP(400, "Message text is required")
    ELSE authenticated_farmer_chat_result(
             chat_context(EmptyDict, "Mixed farming", "2-5 hectares", "Loamy"),
             get_agricultural_advice(AgricultureChatbot(api_key), request.text.s,
                                     DictContext(chat_context(EmptyDict, "Mixed farming", "2-5 hectares", "Loamy")),
                                     month, upstream).v)

ChatEndpoints == {"/api/chat/agriculture", "/api/ai/chat", "/api/test/chat", "/farmer/chat"}

\* the handler of an endpoint
ChatHandler(endpoint, user, import_fails, api_key, request, month, upstream) ==
    CASE endpoint = "/api/chat/agriculture" ->
             agriculture_chat_handler(import_fails, api_key, request, month, upstream)
      [] endpoint = "/api/ai/chat" ->
             ai_chat(import_fails, api_key, request, month, upstream)
      [] endpoint = "/api/test/chat" ->
             agricultural_chat_test(import_fails, api_key, request, month, upstream)
      [] endpoint = "/farmer/chat" ->
             authenticated_farmer_chat(user, import_fails, api_key, request, month,
                                       upstream)

\* the JSON bodies of the chat requests: a question, nothing, an empty or
\* blank text, null and a number, under  message  and under  text
ChatTexts ==
    {Str(QuestionText.tomatoes), Str(QuestionText.joke), Str(<<>>),
     Str(<<" ", " ">>), NoneV, Num(5)}

ChatBodies ==
    {EmptyDict}
    \cup {[message |-> x] : x \in ChatTexts}
    \cup {[text |-> x] : x \in ChatTexts}
    \cup {[message |-> x, location |-> "Punjab"] : x \in {Str(QuestionText.tomatoes)}}

NoHttp == [st |-> "idle"]

\* ------------------------------------------------------------------------
\* server/ml-models/optimized_predictor.py
\*
\* The model file is what joblib.load finds at MODEL_PATH: nothing, bytes
\* that are no pickle, a dict with or without the key 'model', or a bare
\* estimator.  Yields are in hundredths of a quintal per hectare and
\* pesticides_tonnes in hundredths; what the estimator predicts is a number
\* that depends on the encoded crop only.
\* ------------------------------------------------------------------------
ModelFiles == {"missing", "corrupt", "dict", "dict_without_encoders", "dict_without_model", "legacy"}

default_feature_columns == <<"Year", "rainfall_mm", "pesticides_tonnes", "avg_temp", "Area", "Item">>

\* the labels the encoder of the column Item of the stored dict knows
ItemClasses == <<"Maize", "Rice", "Wheat">>

\* the global _GLOBAL_MODEL_DATA while it is None
NoModelData == [none |-> TRUE]

\* the dict load_model_if_needed builds from what joblib.load returned
LoadedModel(file) ==
    IF file \in {"dict", "dict_without_encoders"}
    THEN [none |-> FALSE, model |-> "estimator",
          label_encoders |-> IF file = "dict" THEN [Item |-> ItemClasses] ELSE EmptyDict,
          feature_columns |-> default_feature_columns,
          model_type |-> "Unknown"]
    ELSE [none |-> FALSE, model |-> "estimator", label_encoders |-> EmptyDict,
          feature_columns |-> default_feature_columns, model_type |-> "Legacy"]

\* load_model_if_needed: joblib.load raises on a missing file and on bytes
\* that are no pickle, model_data['model'] raises KeyError; the except
\* branch leaves the global None and raises again.  loads counts the calls
\* of joblib.load, reads those that found a file to read.
load_model_if_needed(process) ==
    IF ~process._GLOBAL_MODEL_DATA.none
    THEN [exc |-> FALSE, v |-> process._GLOBAL_MODEL_DATA, process |-> process]
    ELSE IF process.file \in {"missing", "corrupt", "dict_without_model"}
    THEN [exc |-> TRUE, v |-> NoModelData,
          process |-> [process EXCEPT !.loads = @ + 1,
                                      !.reads = IF process.file = "missing" THEN @
                                                ELSE @ + 1]]
    ELSE [exc |-> FALSE, v |-> LoadedModel(process.file),
          process |-> [process EXCEPT !._GLOBAL_MODEL_DATA = LoadedModel(process.file),
                                      !.loads = @ + 1, !.reads = @ + 1]]

fallback_base_yields ==
    [Rice |-> 35, Wheat |-> 30, Maize |-> 25, Cotton |-> 15, Sugarcane |-> 70,
     Soybean |-> 12, Groundnut |-> 18, Sunflower |-> 14, Jowar |-> 10, Bajra |-> 12,
     Barley |-> 28, Gram |-> 10]

\* the features dict of both predictions
FeaturesUsed(input_data) ==
    [Year |-> GetField(input_data, "year", CurrentYear),
     rainfall_mm |-> GetField(input_data, "rainfall", 100),
     pesticides_tonnes |-> GetField(input_data, "pesticides_tonnes", 0),
     avg_temp |-> GetField(input_data, "temperature", 25),
     Area |-> GetField(input_data, "state", "Unknown"),
     Item |-> GetField(input_data, "crop", "Rice")]

\* the factors are 1.0, 0.9 and 0.8, in tenths; round(x, 2) of the product
FallbackYield(features) ==
    RoundDiv(GetField(fallback_base_yields, features.Item, 25)
                 * (IF 20 <= features.avg_temp /\ features.avg_temp <= 35 THEN 10 ELSE 8)
                 * (IF 75 <= features.rainfall_mm /\ features.rainfall_mm <= 200
                    THEN 10 ELSE 8)
                 * (IF features.pesticides_tonnes <= 10 THEN 10 ELSE 9),
             10)

get_fallback_prediction(input_data) ==
    [predicted_yield_quintal_per_hectare |-> FallbackYield(FeaturesUsed(input_data)),
     features_used |-> FeaturesUsed(input_data),
     model_type |-> "FALLBACK_RULES"]

\* encoder.transform of the column Item: the index of the label among the
\* sorted classes, and 0 for a label the encoder has not seen
EncodedItem(model_data, item) ==
    IF "Item" \notin DOMAIN model_data.label_encoders THEN 0
    ELSE IF InList(model_data.label_encoders.Item, item)
    THEN ListIndex(model_data.label_encoders.Item, item)
    ELSE 0

\* model_data['model'].predict(df)[0]
EstimatorPredict(code) == 3000 + 500 * code

OptimizedPrediction(model_data, input_data) ==
    [predicted_yield_quintal_per_hectare |->
         EstimatorPredict(EncodedItem(model_data, FeaturesUsed(input_data).Item)),
     features_used |-> FeaturesUsed(input_data),
     model_type |-> "OPTIMIZED_ML_MODEL"]

\* predict_yield_optimized from the return of load_model_if_needed on
PredictedWith(loaded, input_data) ==
    [process |-> loaded.process,
     v |-> IF loaded.exc \/ loaded.v.none THEN get_fallback_prediction(input_data)
           ELSE OptimizedPrediction(loaded.v, input_data)]

predict_yield_optimized(process, input_data) ==
    PredictedWith(load_model_if_needed(process), input_data)

\* a process that has imported the module, with the model file it finds
NewProcess(file) ==
    [st |-> "running", file |-> file, _GLOBAL_MODEL_DATA |-> NoModelData,
     loads |-> 0, reads |-> 0, calls |-> 0, last |-> EmptyDict]

InputData ==
    {EmptyDict,
     [crop |-> "Wheat", state |-> "Punjab", temperature |-> 40, rainfall |-> 50,
      pesticides_tonnes |-> 50],
     [crop |-> "Soybean", temperature |-> 25, rainfall |-> 100],
     [crop |-> "Tea", year |-> 2020],
     [crop |-> "Maize", state |-> "Bihar", pesticides_tonnes |-> 10],
     [crop |-> "Rice", temperature |-> 19, rainfall |-> 201]}

PredictorIdle == [st |-> "off"]

\* ------------------------------------------------------------------------
\* database/mongodb.py: get_database, connect_to_mongo, create_indexes
\*
\* The callers are coroutines of one event loop: each runs alone from one
\* await to the next.  A client is the number of its creation, 0 is None,
\* and the handle database = client[db_name] is the client it belongs to.
\* ------------------------------------------------------------------------
\* a caller outside get_database
NotCalling == [pc |-> "idle", exc |-> FALSE, handle |-> 0]

\* the module after import: client and database are None
MongoModule ==
    [client |-> 0, database |-> 0, created |-> 0, index_runs |-> 0,
     ping_failed |-> FALSE, callers |-> [c \in 1..MaxCallers |-> NotCalling]]

\* get_database up to its first await: the check of the global, and in
\* connect_to_mongo the creation of the client, up to  await ping
get_database(module, c) ==
    IF module.database # 0
    THEN [module EXCEPT !.callers[c] =
              [pc |-> "done", exc |-> FALSE, handle |-> module.database]]
    ELSE [module EXCEPT !.client = module.created + 1,
                        !.created = @ + 1,
                        !.callers[c] = [pc |-> "ping", exc |-> FALSE, handle |-> 0]]

\* connect_to_mongo from the return of  await client.admin.command('ping')
\* to  await create_indexes(): database = client[db_name] reads the global
\* client; a ping that fails raises out of get_database
connect_to_mongo(module, c, ping_ok) ==
    IF ping_ok
    THEN [module EXCEPT !.database = module.client,
                        !.callers[c] = [pc |-> "indexes", exc |-> FALSE, handle |-> 0]]
    ELSE [module EXCEPT !.ping_failed = TRUE,
                        !.callers[c] = [pc |-> "done", exc |-> TRUE, handle |-> 0]]

\* create_indexes, which catches what it raises, and the return of
\* get_database: the global database as it is by then
create_indexes(module, c) ==
    [module EXCEPT !.index_runs = @ + 1,
                   !.callers[c] = [pc |-> "done", exc |-> FALSE,
                                   handle |-> module.database]]

MongoIdle == MongoModule

PriceIdle == prices = NoPrices

MoreIdle ==
    /\ weather = NoWeather
    /\ http = NoHttp
    /\ predictor = PredictorIdle
    /\ mongodb = MongoIdle

\* the objects outside the inference service, before their construction
RecIdle ==
    /\ crop_files = NoDisk
    /\ crop_service = CropServiceInit
    /\ rec = NoRec

ChatIdle ==
    /\ environ = NoneV
    /\ chat = NoChat

ExtIdle ==
    /\ RecIdle
    /\ ChatIdle
    /\ CsvIdle
    /\ PriceIdle
    /\ MoreIdle

\* ------------------------------------------------------------------------
\* Actions
\* ------------------------------------------------------------------------
\* lifespan, first step: await get_database(); a failed connection raises
\* and the application does not start
ConnectDatabase ==
    /\ phase = "starting"
    /\ \E connected \in BOOLEAN :
          IF connected
          THEN database' = "connected" /\ phase' = "database_ready"
          ELSE database' = database /\ phase' = "startup_failed"
    /\ UNCHANGED <<files, ml_service, loaded_from, hash_seed, reqs, response, call>>
    /\ UNCHANGED ext_vars

\* lifespan, second step: await ml_service.initialize(); then the server
\* accepts requests
InitializeML ==
    /\ phase = "database_ready"
    /\ ml_service' = initialize(ml_service, files)
    /\ loaded_from' = files
    /\ phase' = "serving"
    /\ UNCHANGED <<database, files, hash_seed, reqs, response, call>>
    /\ UNCHANGED ext_vars

\* the operator copies a good model and good encoders into the models
\* directory of the running or starting service
DeployArtifacts ==
    /\ phase \in {"starting", "database_ready", "serving"}
    /\ files.yield_model # "good" \/ files.yield_encoders # "good"
    /\ files' = [files EXCEPT !.yield_model = "good", !.yield_encoders = "good"]
    /\ UNCHANGED <<phase, database, ml_service, loaded_from, hash_seed, reqs, response, call>>
    /\ UNCHANGED ext_vars

\* a request arrives
Receive(request) ==
    /\ phase = "serving"
    /\ request \notin reqs
    /\ Cardinality(reqs) < MaxInFlight
    /\ reqs' = reqs \cup {request}
    /\ UNCHANGED <<phase, database, files, ml_service, loaded_from, hash_seed, response, call>>
    /\ UNCHANGED ext_vars

\* the response of a handler to its request, as the client receives it
Sent(request, out) ==
    [req |-> request,
     resp |-> [status |-> out.status, body |-> out.body, trace |-> out.trace]]

\* the event loop runs the handler of one request in flight to its end
\* (no handler of the service awaits anything that suspends)
Handle(request) ==
    /\ phase = "serving"
    /\ request \in reqs
    /\ response' = Sent(request, Handler(ml_service, hash_seed, request))
    /\ ml_service' = Handler(ml_service, hash_seed, request).self
    /\ reqs' = reqs \ {request}
    /\ UNCHANGED <<phase, database, files, loaded_from, hash_seed, call>>
    /\ UNCHANGED ext_vars

\* a call that returned: its input, and what it raised or returned
ReturnedCall(input_data, out) ==
    [st |-> "returned", input_data |-> input_data,
     exc |-> out.exc, result |-> out.v, trace |-> out.trace]

\* a direct call of _predict_yield_ml, as the test scripts make it
CallPredict ==
    /\ call.st = "ready"
    /\ call' = ReturnedCall(call.input_data,
                            _predict_yield_ml(ml_service, hash_seed, call.input_data))
    /\ ml_service' = _predict_yield_ml(ml_service, hash_seed, call.input_data).self
    /\ UNCHANGED <<phase, database, files, loaded_from, hash_seed, reqs, response>>
    /\ UNCHANGED ext_vars

\* ------------------------------------------------------------------------
\* Actions of the crop recommendation calls
\* ------------------------------------------------------------------------
\* await service.initialize(), as test_crop_integration.py calls it
InitializeCropService ==
    /\ rec.st = "none"
    /\ crop_service' = CropRecommendationService_initialize(crop_service, crop_files)
    /\ rec' = [st |-> "ready"]
    /\ UNCHANGED <<more_vars, ml_vars, crop_files>>
    /\ UNCHANGED <<chat_vars, csv_vars, price_vars>>

\* a call of CropRecommendationService.recommend_crop that ended
AgriSensCall(a, probabilities, out) ==
    [st |-> "returned", svc |-> "agrisens", a |-> a, probabilities |-> probabilities,
     exc |-> out.exc, result |-> out.v, warnings |-> out.warnings,
     top |-> IF out.exc THEN <<>> ELSE out.v.top_3_recommendations,
     candidates |-> IF out.exc THEN 0
                    ELSE IF crop_service.model.has_proba
                         THEN Len(crop_service.model.classes_) ELSE 1,
     scored_by |-> IF out.exc THEN "nothing"
                   ELSE IF crop_service.model.has_proba THEN "classifier" ELSE "constant"]

\* await service.recommend_crop(N, P, K, temperature, humidity, ph, rainfall)
CallAgriSens ==
    /\ rec.st \in {"none", "ready"}
    /\ \E a \in AgriSensInputs :
       \E probabilities \in
            IF crop_service.model.has_proba
            THEN Probabilities(Len(crop_service.model.classes_))
            ELSE {<<>>} :
       \E guess \in
            IF crop_service.model.none \/ crop_service.model.has_proba
            THEN {1} ELSE 1..Len(crop_service.model.classes_) :
          rec' = AgriSensCall(a, probabilities,
                              CropRecommendationService_recommend_crop(
                                  crop_service, a, probabilities, guess))
    /\ UNCHANGED <<more_vars, ml_vars, crop_files, crop_service>>
    /\ UNCHANGED <<chat_vars, csv_vars, price_vars>>

\* the top list of MLService.recommend_crop, crop by crop with the confidence
\* it reports
ReportedTop(recommended_crops) ==
    [i \in 1..Len(recommended_crops) |->
         [crop |-> recommended_crops[i].crop,
          confidence |-> recommended_crops[i].suitability_score]]

\* a call of MLService.recommend_crop that ended
MLRecommendCall(a, out) ==
    [st |-> "returned", svc |-> "ml", a |-> a,
     exc |-> out.exc, result |-> out.v,
     top |-> IF out.exc THEN <<>> ELSE ReportedTop(out.v.recommended_crops),
     candidates |-> IF out.exc THEN 0 ELSE Len(crops_data),
     scored_by |-> IF out.exc THEN "nothing" ELSE "similarity"]

\* await ml_service.recommend_crop(N, P, K, temperature, humidity, ph, rainfall)
CallRecommendML ==
    /\ rec.st \in {"none", "ready"}
    /\ \E a \in SoilReadings : rec' = MLRecommendCall(a, recommend_crop(ml_service, a))
    /\ UNCHANGED <<more_vars, ml_vars, crop_files, crop_service>>
    /\ UNCHANGED <<chat_vars, csv_vars, price_vars>>

\* ------------------------------------------------------------------------
\* Actions of the chat calls
\* ------------------------------------------------------------------------
\* the environment variable OPENROUTER_API_KEY is set or removed
SetApiKey ==
    /\ chat.st = "idle"
    /\ \E api_key \in ApiKeys : environ' = api_key
    /\ UNCHANGED <<more_vars, ml_vars, rec_vars, chat, csv_vars, price_vars>>

\* a call that ended: what was asked, under which key, the verdict of the
\* classifier on the question, and what came back
ChatCall(via, input, question, month, upstream, out) ==
    [st |-> "returned", via |-> via, input |-> input, question |-> question,
     api_key |-> environ, related |-> _is_agriculture_related(question),
     month |-> month, upstream |-> upstream,
     result |-> out.v, asked |-> out.asked, posts |-> out.posts]

\* await AgricultureChatbot().get_agricultural_advice(question, context)
CallAdvice ==
    /\ chat.st = "idle"
    /\ \E question \in Questions, context \in Contexts,
          month \in ChatMonths, upstream \in Upstreams :
          chat' = ChatCall("call", context, question, month, upstream,
                           get_agricultural_advice(AgricultureChatbot(environ), question,
                                                   context, month, upstream))
    /\ UNCHANGED <<more_vars, ml_vars, rec_vars, environ, csv_vars, price_vars>>

\* POST /api/chat/agriculture
AgricultureChat ==
    /\ chat.st = "idle"
    /\ \E request \in ChatRequests, month \in ChatMonths, upstream \in Upstreams :
          chat' = ChatCall("route", request, MessageOf(request), month, upstream,
                           agriculture_chat(environ, request, month, upstream))
    /\ UNCHANGED <<more_vars, ml_vars, rec_vars, environ, csv_vars, price_vars>>

\* ------------------------------------------------------------------------
\* Actions of POST /api/upload/csv
\* ------------------------------------------------------------------------
\* process_csv_upload from the parsed frame on, up to its first write
Validated(file, user_id, batch_id, df, validation) ==
    [pc |-> IF Len(validation.valid_rows) > 0 THEN "insert" ELSE "record",
     file |-> file, user_id |-> user_id, batch_id |-> batch_id,
     total_rows |-> Len(df.rows), validation |-> validation,
     inserted |-> <<>>, recorded |-> <<>>]

\* process_csv_upload from the return of pd.read_csv on
Parsed(file, user_id, batch_id, parsed) ==
    IF parsed.exc
    THEN Ended([file |-> file, inserted |-> <<>>, recorded |-> <<>>], 500,
               [detail |-> "CSV upload failed"])
    ELSE Validated(file, user_id, batch_id, parsed.v, _validate_crop_data(parsed.v))

\* the request arrives: authentication, the check of the file name, and
\* process_csv_upload up to its first write to the database
BeginUpload(u) ==
    /\ uploads[u].pc = "idle"
    /\ \E file \in UploadFiles, user \in Users :
          IF user = None
          THEN /\ uploads' = [uploads EXCEPT ![u] =
                     Ended([file |-> file, inserted |-> <<>>, recorded |-> <<>>], 401,
                           [detail |-> "Invalid authentication credentials"])]
               /\ UNCHANGED issued
          ELSE IF ~EndsWith(file.filename, FileName.dot_csv)
          THEN /\ uploads' = [uploads EXCEPT ![u] =
                     Ended([file |-> file, inserted |-> <<>>, recorded |-> <<>>], 400,
                           [detail |-> "Only CSV files are allowed"])]
               /\ UNCHANGED issued
          ELSE \E batch_id \in UUIDs \ issued :
               /\ issued' = issued \cup {batch_id}
               /\ uploads' = [uploads EXCEPT ![u] =
                                 Parsed(file, user, batch_id, read_csv(file))]
    /\ UNCHANGED <<crop_data, upload_batches, crop_read>>
    /\ UNCHANGED <<more_vars, ml_vars, rec_vars, chat_vars, price_vars>>

\* the upload after insert_many wrote the first  written  of the records
AfterInsert(upload, records, written) ==
    IF written = Len(records)
    THEN [upload EXCEPT !.pc = "record", !.inserted = records]
    ELSE Ended([file |-> upload.file, inserted |-> Take(records, written),
                recorded |-> <<>>], 500, [detail |-> "CSV upload failed"])

\* _insert_crop_data with the outcome of insert_many
Insert(u, records, written) ==
    /\ crop_data' = crop_data \o Take(records, written)
    /\ uploads' = [uploads EXCEPT ![u] = AfterInsert(uploads[u], records, written)]

\* await collection.insert_many(data): all the records are written, or the
\* write fails after some of them and the handler answers 500
InsertCropData(u) ==
    /\ uploads[u].pc = "insert"
    /\ \E written \in 0..Len(uploads[u].validation.valid_rows) :
          Insert(u, _insert_crop_data(uploads[u].validation.valid_rows,
                                      uploads[u].batch_id), written)
    /\ UNCHANGED <<upload_batches, issued, crop_read>>
    /\ UNCHANGED <<more_vars, ml_vars, rec_vars, chat_vars, price_vars>>

\* the record _record_upload_batch writes for an upload
BatchRecord(upload) ==
    _record_upload_batch(upload.batch_id, upload.file.filename, upload.file.size,
                         upload.total_rows, Len(upload.validation.valid_rows),
                         Len(upload.validation.invalid_rows), upload.user_id)

\* await collection.insert_one(batch_record) and the return of the result,
\* or the failure of the write and the answer 500
RecordUploadBatch(u) ==
    /\ uploads[u].pc = "record"
    /\ \/ /\ upload_batches' = Append(upload_batches, BatchRecord(uploads[u]))
          /\ uploads' = [uploads EXCEPT ![u] =
                 Ended([file |-> uploads[u].file, inserted |-> uploads[u].inserted,
                        recorded |-> <<BatchRecord(uploads[u])>>], 200,
                       UploadResult(uploads[u].batch_id, uploads[u].total_rows,
                                    uploads[u].validation))]
       \/ /\ UNCHANGED upload_batches
          /\ uploads' = [uploads EXCEPT ![u] =
                 Ended(uploads[u], 500, [detail |-> "CSV upload failed"])]
    /\ UNCHANGED <<crop_data, issued, crop_read>>
    /\ UNCHANGED <<more_vars, ml_vars, rec_vars, chat_vars, price_vars>>

\* GET /api/crop-data without filters, from the request to the answer
GetCropData ==
    /\ crop_read.st = "idle"
    /\ \E limit \in {100}, offset \in {0} :
          crop_read' = route_get_crop_data(limit, offset,
                                           get_crop_data(crop_data, limit, offset))
    /\ UNCHANGED <<crop_data, upload_batches, issued, uploads>>
    /\ UNCHANGED <<more_vars, ml_vars, rec_vars, chat_vars, price_vars>>

\* ------------------------------------------------------------------------
\* Actions of GET /farmer/crop-prices
\* ------------------------------------------------------------------------
\* a request that was answered
PriceRequest(user, query, upstream, answer) ==
    [st |-> "answered", user |-> user, query |-> query, upstream |-> upstream,
     status |-> answer.status, body |-> answer.body]

\* the request, from get_current_user to the answer
GetCropPrices ==
    /\ prices.st = "idle"
    /\ \E user \in Users, query \in PriceQueries, upstream \in PriceUpstreams :
          prices' = PriceRequest(user, query, upstream,
                        IF user = None
                        THEN PriceAnswer(401,
                                 [detail |-> "Invalid authentication credentials"])
                        ELSE get_crop_prices(query.state, query.commodity, query.limit,
                                             query.offset, upstream))
    /\ UNCHANGED <<more_vars, ml_vars, rec_vars, chat_vars, csv_vars>>

\* ------------------------------------------------------------------------
\* Actions of the weather calls
\* ------------------------------------------------------------------------
\* a call of get_agricultural_weather that ended
WeatherCall(api_key, location, upstream, draw, out) ==
    [st |-> "returned", api_key |-> api_key, location |-> location,
     upstream |-> upstream, draw |-> draw, exc |-> out.exc, result |-> out.v]

\* await WeatherService().get_agricultural_weather(location)
GetAgriculturalWeather ==
    /\ weather.st = "idle"
    /\ \E api_key \in WeatherKeys, location \in Locations,
          upstream \in WeatherUpstreams, draw \in Draws :
          weather' = WeatherCall(api_key, location, upstream, draw,
                                 get_agricultural_weather(api_key, location, upstream,
                                                          draw))
    /\ UNCHANGED <<http, predictor, mongodb>>
    /\ UNCHANGED <<ml_vars, rec_vars, chat_vars, csv_vars, price_vars>>

\* ------------------------------------------------------------------------
\* Actions of the chat endpoints
\* ------------------------------------------------------------------------
\* a request that was answered
ChatExchange(endpoint, user, import_fails, api_key, request, upstream, answer) ==
    [st |-> "answered", endpoint |-> endpoint, user |-> user,
     import_fails |-> import_fails, api_key |-> api_key, request |-> request,
     upstream |-> upstream, status |-> answer.status, body |-> answer.body]

\* a POST to one of the chat endpoints, from the request to the response;
\* the import of services.agriculture_chatbot inside the handler succeeds or
\* raises
PostChat ==
    /\ http.st = "idle"
    /\ \E endpoint \in ChatEndpoints, user \in Users, import_fails \in BOOLEAN,
          api_key \in ApiKeys, request \in ChatBodies, upstream \in Upstreams :
          http' = ChatExchange(endpoint, user, import_fails, api_key, request, upstream,
                               Respond(ChatHandler(endpoint, user, import_fails, api_key,
                                                   request, 5, upstream)))
    /\ UNCHANGED <<weather, predictor, mongodb>>
    /\ UNCHANGED <<ml_vars, rec_vars, chat_vars, csv_vars, price_vars>>

\* ------------------------------------------------------------------------
\* Actions of the optimized predictor
\* ------------------------------------------------------------------------
\* the process after a call of predict_yield_optimized
AfterPrediction(out) == [out.process EXCEPT !.calls = @ + 1, !.last = out.v]

\* predict_yield_optimized(input_data)
PredictYieldOptimized ==
    /\ predictor.st = "running"
    /\ predictor.calls < MaxCalls
    /\ \E input_data \in InputData :
          predictor' = AfterPrediction(predict_yield_optimized(predictor, input_data))
    /\ UNCHANGED <<weather, http, mongodb>>
    /\ UNCHANGED <<ml_vars, rec_vars, chat_vars, csv_vars, price_vars>>

\* ------------------------------------------------------------------------
\* Actions of the callers of get_database
\* ------------------------------------------------------------------------
\* a coroutine calls  await get_database()  and runs to its first await
GetDatabase(c) ==
    /\ mongodb.callers[c].pc = "idle"
    /\ mongodb' = get_database(mongodb, c)
    /\ UNCHANGED <<weather, http, predictor>>
    /\ UNCHANGED <<ml_vars, rec_vars, chat_vars, csv_vars, price_vars>>

\* the ping returns or raises ServerSelectionTimeoutError
Ping(c) ==
    /\ mongodb.callers[c].pc = "ping"
    /\ \E ping_ok \in BOOLEAN : mongodb' = connect_to_mongo(mongodb, c, ping_ok)
    /\ UNCHANGED <<weather, http, predictor>>
    /\ UNCHANGED <<ml_vars, rec_vars, chat_vars, csv_vars, price_vars>>

\* the index creation ends and get_database returns
CreateIndexes(c) ==
    /\ mongodb.callers[c].pc = "indexes"
    /\ mongodb' = create_indexes(mongodb, c)
    /\ UNCHANGED <<weather, http, predictor>>
    /\ UNCHANGED <<ml_vars, rec_vars, chat_vars, csv_vars, price_vars>>

\* ------------------------------------------------------------------------
\* Specifications
\* ------------------------------------------------------------------------
\* the service process, from construction on
Init ==
    /\ phase = "starting"
    /\ database = None
    /\ files \in FileStates
    /\ ml_service = MLServiceInit
    /\ loaded_from = [yield_model |-> "unread", yield_encoders |-> "unread",
                      crop_model |-> "unread", crop_imputer |-> "unread"]
    /\ hash_seed \in HashSeeds
    /\ reqs = {}
    /\ response = NoResponse
    /\ call = NoCall
    /\ ExtIdle

Next ==
    \/ ConnectDatabase
    \/ InitializeML
    \/ DeployArtifacts
    \/ \E request \in Requests : Receive(request)
    \/ \E request \in Requests : Handle(request)

Spec == Init /\ [][Next]_vars

\* an initialized service and one direct call of _predict_yield_ml
InitPredict ==
    /\ phase = "serving"
    /\ database = "connected"
    /\ files \in [yield_model : YieldModelFiles, yield_encoders : YieldEncoderFiles,
                  crop_model : {"missing"}, crop_imputer : {"missing"}]
    /\ ml_service = initialize(MLServiceInit, files)
    /\ loaded_from = files
    /\ hash_seed \in HashSeeds
    /\ reqs = {}
    /\ response = NoResponse
    /\ call \in [st : {"ready"}, input_data : LooseDicts]
    /\ ExtIdle

NextPredict == CallPredict

SpecPredict == InitPredict /\ [][NextPredict]_vars

\* an initialized MLService, a CropRecommendationService, and one direct
\* call of a recommend_crop method
InitRecommend ==
    /\ phase = "serving"
    /\ database = "connected"
    /\ files \in [yield_model : {"missing"}, yield_encoders : {"missing"},
                  crop_model : CropModelFiles, crop_imputer : {"good"}]
    /\ ml_service = initialize(MLServiceInit, files)
    /\ loaded_from = files
    /\ hash_seed = 0
    /\ reqs = {}
    /\ response = NoResponse
    /\ call = NoCall
    /\ crop_files \in CropDisks
    /\ crop_service = CropServiceInit
    /\ rec = NoRec
    /\ ChatIdle
    /\ CsvIdle
    /\ PriceIdle
    /\ MoreIdle

NextRecommend ==
    \/ InitializeCropService
    \/ CallAgriSens
    \/ CallRecommendML

SpecRecommend == InitRecommend /\ [][NextRecommend]_vars

\* the chatbot and its route, with the inference service left as constructed
InitChat ==
    /\ phase = "serving"
    /\ database = "connected"
    /\ files \in [yield_model : {"missing"}, yield_encoders : {"missing"},
                  crop_model : {"missing"}, crop_imputer : {"missing"}]
    /\ ml_service = initialize(MLServiceInit, files)
    /\ loaded_from = files
    /\ hash_seed = 0
    /\ reqs = {}
    /\ response = NoResponse
    /\ call = NoCall
    /\ RecIdle
    /\ environ \in ApiKeys
    /\ chat = NoChat
    /\ CsvIdle
    /\ PriceIdle
    /\ MoreIdle

NextChat ==
    \/ SetApiKey
    \/ CallAdvice
    \/ AgricultureChat

SpecChat == InitChat /\ [][NextChat]_vars

\* the uploads of crop data, with the other services left as constructed
InitCsv ==
    /\ phase = "serving"
    /\ database = "connected"
    /\ files \in [yield_model : {"missing"}, yield_encoders : {"missing"},
                  crop_model : {"missing"}, crop_imputer : {"missing"}]
    /\ ml_service = initialize(MLServiceInit, files)
    /\ loaded_from = files
    /\ hash_seed = 0
    /\ reqs = {}
    /\ response = NoResponse
    /\ call = NoCall
    /\ RecIdle
    /\ ChatIdle
    /\ CsvIdle
    /\ PriceIdle
    /\ MoreIdle

NextCsv ==
    \/ \E u \in 1..MaxUploads : BeginUpload(u)
    \/ \E u \in 1..MaxUploads : InsertCropData(u)
    \/ \E u \in 1..MaxUploads : RecordUploadBatch(u)
    \/ GetCropData

SpecCsv == InitCsv /\ [][NextCsv]_vars

\* the price requests, with the other services left as constructed
InitPrices ==
    /\ phase = "serving"
    /\ database = "connected"
    /\ files \in [yield_model : {"missing"}, yield_encoders : {"missing"},
                  crop_model : {"missing"}, crop_imputer : {"missing"}]
    /\ ml_service = initialize(MLServiceInit, files)
    /\ loaded_from = files
    /\ hash_seed = 0
    /\ reqs = {}
    /\ response = NoResponse
    /\ call = NoCall
    /\ RecIdle
    /\ ChatIdle
    /\ CsvIdle
    /\ PriceIdle
    /\ MoreIdle

NextPrices == GetCropPrices

SpecPrices == InitPrices /\ [][NextPrices]_vars

\* the weather calls, with the other services left as constructed
InitWeather == InitPrices

NextWeather == GetAgriculturalWeather

SpecWeather == InitWeather /\ [][NextWeather]_vars

\* the requests of the chat endpoints, with the other services left as
\* constructed
InitHttp == InitPrices

NextHttp == PostChat

SpecHttp == InitHttp /\ [][NextHttp]_vars

\* one process of the optimized predictor, with the services left as
\* constructed
InitOptimized ==
    /\ phase = "serving"
    /\ database = "connected"
    /\ files \in [yield_model : {"missing"}, yield_encoders : {"missing"},
                  crop_model : {"missing"}, crop_imputer : {"missing"}]
    /\ ml_service = initialize(MLServiceInit, files)
    /\ loaded_from = files
    /\ hash_seed = 0
    /\ reqs = {}
    /\ response = NoResponse
    /\ call = NoCall
    /\ RecIdle
    /\ ChatIdle
    /\ CsvIdle
    /\ PriceIdle
    /\ weather = NoWeather
    /\ http = NoHttp
    /\ predictor \in {NewProcess(file) : file \in ModelFiles}
    /\ mongodb = MongoIdle

NextOptimized == PredictYieldOptimized

SpecOptimized == InitOptimized /\ [][NextOptimized]_vars

\* the callers of get_database on a module without a connection, with the
\* services left as constructed
InitMongo == InitPrices

NextMongo ==
    \/ \E c \in 1..MaxCallers : GetDatabase(c)
    \/ \E c \in 1..MaxCallers : Ping(c)
    \/ \E c \in 1..MaxCallers : CreateIndexes(c)

SpecMongo == InitMongo /\ [][NextMongo]_vars

\* ------------------------------------------------------------------------
\* Properties of the service process (Spec)
\* ------------------------------------------------------------------------
Served(kind) == response.req.kind = kind

\* C1: when the yield model file does not exist at service start, initialize
\* still ends with is_initialized = TRUE, and every request to
\* /api/predict/simple-yield is answered with HTTP 200 and the model_type
\* "Rule-based Fallback".
C1_MissingModelServedByFallback ==
    (phase = "serving" /\ loaded_from.yield_model = "missing") =>
        /\ ml_service.is_initialized
        /\ Served("simple_yield") =>
               /\ response.resp.status = 200
               /\ response.resp.body.model_type = "Rule-based Fallback"

C1_Witness ==
    /\ phase = "serving"
    /\ loaded_from.yield_model = "missing"
    /\ Served("simple_yield")
    /\ response.resp.status = 200
    /\ response.resp.body.predicted_yield > 0

\* the load of the yield model or of its encoders raised at start
LoadRaised ==
    /\ loaded_from.yield_model \in {"corrupt", "good", "incompatible"}
    /\ loaded_from.yield_model = "corrupt" \/ loaded_from.yield_encoders = "corrupt"

\* C2: a load of the yield model or of its encoders that raises at start
\* leaves the service in the rule-based state for the process lifetime: the
\* model stays unloaded in every later state, whatever requests are handled
\* and whatever files appear on disk, and an unloaded model never becomes a
\* loaded one.
C2_RuleBasedIsPermanent ==
    /\ []((phase = "serving" /\ LoadRaised) =>
              ml_service.yield_model = None /\ ml_service.yield_encoders = NoEncoders)
    /\ [][(phase = "serving" /\ ml_service.yield_model = None) =>
              ml_service'.yield_model = None]_vars

C2_Witness ==
    /\ phase = "serving"
    /\ LoadRaised
    /\ files.yield_model = "good"
    /\ files.yield_encoders = "good"
    /\ Served("simple_yield")
    /\ response.resp.body.model_type = "Rule-based Fallback"

\* the prediction of the response came from yield_model.predict
ByModel == response.resp.trace.used_model

\* C7: every yield prediction response is tagged with the path that produced
\* its numbers: the tags of the ML model (model_version "Agrisense_v1.0",
\* confidence 0.85, model_type "Random Forest ML Model") appear exactly on
\* the responses whose numbers the model predicted.
C7_TagMatchesPath ==
    /\ (Served("yield") /\ response.resp.status = 200) =>
           /\ (response.resp.body.model_version = "Agrisense_v1.0") <=> ByModel
           /\ (response.resp.body.confidence_score = 850) <=> ByModel
    /\ (Served("simple_yield") /\ response.resp.status = 200) =>
           ((response.resp.body.model_type = "Random Forest ML Model") <=> ByModel)

\* C8: in rule-based mode the result is bounded for any input: the yield is
\* positive and at most 36 quintals/hectare, and the total production is
\* never negative.
C8_RuleBasedBounded ==
    (Served("simple_yield") /\ response.resp.status = 200
        /\ response.resp.body.model_type = "Rule-based Fallback") =>
        /\ response.resp.body.predicted_yield > 0
        /\ response.resp.body.predicted_yield <= 3600
        /\ response.resp.body.total_production >= 0

\* the response of a request handled alone, right after initialize
Alone(request) ==
    LET out == Handler(initialize(MLServiceInit, loaded_from), hash_seed, request)
    IN  [status |-> out.status, body |-> out.body, trace |-> out.trace]

\* C9: once initialize has completed, no request changes yield_model,
\* yield_encoders, crop_model, crop_imputer or is_initialized, and in every
\* interleaving of the requests in flight each request gets the response it
\* gets when it is handled alone.
C9_RequestsLeaveModelsAlone ==
    /\ [][phase = "serving" => ml_service' = ml_service]_vars
    /\ [](response.req.kind # "none" => response.resp = Alone(response.req))

C9_Witness ==
    /\ phase = "serving"
    /\ ml_service.yield_model = "Incompatible"
    /\ Served("yield")
    /\ response.resp.status = 200
    /\ Cardinality(reqs) = MaxInFlight

\* C10: with the service initialized, /api/predict/crop-recommendation and
\* /api/crop-suggestions answer seven numeric inputs with a successful
\* response that holds the best crop, its confidence and the top-3 list.
C10_RecommendationAnswered ==
    (response.req.kind \in {"crop_recommendation", "crop_suggestions"}
        /\ ml_service.is_initialized) =>
        /\ response.resp.status = 200
        /\ HasKeys(response.resp.body, {"success", "recommended_crop", "confidence"})
        /\ response.resp.body.success

\* ------------------------------------------------------------------------
\* Properties of _predict_yield_ml (SpecPredict)
\* ------------------------------------------------------------------------
Returned == call.st = "returned"

ResultKeys == {"predicted_yield_per_hectare", "total_predicted_production", "model_type"}

\* a value the rule-based formula cannot use where it reads the key
Unusable(key) ==
    \/ call.input_data[key].t = "none"
    \/ /\ call.input_data[key].t = "str"
       /\ key = "area" \/ \E i \in 1..Len(call.input_data[key].s) :
                              \A j \in 1..Len(Digits) : call.input_data[key].s[i] # Digits[j]
    \/ call.input_data[key].t = "str" /\ Len(call.input_data[key].s) = 0

\* C3: _predict_yield_ml never raises: for every input dict it returns a
\* result with predicted_yield_per_hectare, total_predicted_production and
\* model_type, from the model when it is loaded and its prediction works,
\* else from the rule-based formula, and from the emergency default only
\* when the formula cannot use the input.
C3_PredictNeverRaises ==
    Returned =>
        /\ ~call.exc
        /\ HasKeys(call.result, ResultKeys)
        /\ call.result.model_type
               \in {"Random Forest ML Model", "Rule-based Fallback", "Emergency Default"}
        /\ call.result.model_type = "Random Forest ML Model" =>
               ml_service.yield_model = "RandomForestRegressor"
        /\ call.result.model_type = "Emergency Default" =>
               \E key \in {"temperature", "rainfall", "area"} : Unusable(key)
        /\ (\E key \in {"temperature", "rainfall", "area"} : Unusable(key)) =>
               call.result.model_type = "Emergency Default"

C3_Witness ==
    /\ Returned
    /\ ml_service.yield_model = "RandomForestRegressor"
    /\ call.input_data.area.t = "str"
    /\ call.result.model_type = "Emergency Default"

StateName == PyStr(Get(call.input_data, "state", Str(Punjab)))
CropName == PyStr(Get(call.input_data, "crop", Str(Rice)))

\* code is the position of name in classes, or 0 for a name not in classes
IndexOrZero(classes, name, code) ==
    \/ \E i \in 1..Len(classes) : classes[i] = name /\ code = i - 1
    \/ (\A i \in 1..Len(classes) : classes[i] # name) /\ code = 0

\* C4, as claimed: whenever the loaded model is used for a prediction, a
\* crop or state that is not in the trained vocabulary is encoded as index 0
\* and one that is in it as its position, and nothing is raised.
C4_VocabularyEncoding ==
    (Returned /\ call.trace.used_model) =>
        /\ ~call.exc
        /\ IndexOrZero(AreaClasses, StateName, call.trace.Area)
        /\ IndexOrZero(CropClasses, CropName, call.trace.Item)

\* C4, amended: the index policy holds whenever the model is used with its
\* encoders loaded; when the encoders are not loaded the model is used all
\* the same, with a state index in 0..9 and a crop index in 0..5 taken from
\* the string's hash, and nothing is raised in either case.
C4_EncodingWithEncoders ==
    (Returned /\ call.trace.used_model) =>
        /\ ~call.exc
        /\ IF ~ml_service.yield_encoders.none
           THEN /\ IndexOrZero(ml_service.yield_encoders.area_classes, StateName,
                               call.trace.Area)
                /\ IndexOrZero(ml_service.yield_encoders.crop_classes, CropName,
                               call.trace.Item)
                /\ ml_service.yield_encoders.area_classes = AreaClasses
                /\ ml_service.yield_encoders.crop_classes = CropClasses
           ELSE call.trace.Area \in 0..9 /\ call.trace.Item \in 0..5

C4_Witness ==
    /\ Returned
    /\ call.trace.used_model
    /\ ~ml_service.yield_encoders.none
    /\ StateName = Atlantis
    /\ CropName = Rice
    /\ call.trace.Area = 0
    /\ call.trace.Item = 2

AreaValue == Get(call.input_data, "area", Num(1))

\* C5: every result satisfies total_predicted_production =
\* round(predicted_yield_per_hectare * area_hectares, 2), with the yield as
\* returned (both in hundredths here, the area a whole number).
C5_TotalIsYieldTimesArea ==
    (Returned /\ AreaValue.t = "num") =>
        call.result.total_predicted_production =
            call.result.predicted_yield_per_hectare * AreaValue.n

\* C6: on the ML path the reported yield is the raw output divided by 10
\* once and rounded to two decimals, and a rule-based yield is the product
\* of the base yield and its factors, not divided.
C6_DividedByTenOnce ==
    Returned =>
        /\ call.trace.used_model =>
               /\ call.result.model_type = "Random Forest ML Model"
               /\ 2 * Abs(HgPerQuintal * call.result.predicted_yield_per_hectare
                              - call.trace.raw) <= HgPerQuintal
        /\ call.result.model_type = "Rule-based Fallback" =>
               /\ ~call.trace.used_model
               /\ 2 * Abs(10000 * call.result.predicted_yield_per_hectare
                              - base_yield * call.result.adjustment_factors.temperature_factor
                                    * call.result.adjustment_factors.rainfall_factor
                                    * call.result.adjustment_factors.crop_factor) <= 10000

C6_Witness ==
    /\ Returned
    /\ call.trace.used_model
    /\ call.trace.raw % HgPerQuintal # 0
    /\ HgPerQuintal * call.result.predicted_yield_per_hectare > call.trace.raw

\* ------------------------------------------------------------------------
\* Properties of the recommendation calls (SpecRecommend)
\* ------------------------------------------------------------------------
Recommended3 == rec.st = "returned" /\ ~rec.exc

\* C11: the top list a recommendation call returns is sorted in
\* non-increasing order of the confidence values it reports, its crops are
\* pairwise distinct, and it has exactly 3 entries whenever at least 3
\* candidate crops were given a score.
C11_TopThreeSortedDistinct ==
    Recommended3 =>
        /\ \A i \in 1..(Len(rec.top) - 1) : rec.top[i].confidence >= rec.top[i + 1].confidence
        /\ \A i, j \in 1..Len(rec.top) : i # j => rec.top[i].crop # rec.top[j].crop
        /\ Len(rec.top) <= 3
        /\ rec.candidates >= 3 => Len(rec.top) = 3

\* the classifier ranked at least 3 classes, the second and third of them
\* against their order in classes_
C11_Witness ==
    /\ Recommended3
    /\ rec.svc = "agrisens"
    /\ rec.candidates >= 3
    /\ Len(rec.top) = 3
    /\ rec.top[1].confidence > rec.top[3].confidence
    /\ PosIn(supported_crops, rec.top[1].crop) > PosIn(supported_crops, rec.top[2].crop)

\* C12: with a crop classifier loaded, the confidence values of a
\* recommendation are the classifier's class probabilities; the similarity
\* score is used only without a classifier.
C12_ClassifierConfidence ==
    /\ (Recommended3 /\ rec.svc = "ml" /\ ml_service.crop_model # None)
           => rec.scored_by = "classifier"
    /\ (Recommended3 /\ rec.svc = "agrisens" /\ crop_service.model.has_proba)
           => rec.scored_by = "classifier"

\* the names of the numeric inputs outside their typical range
OutOfRange(a) ==
    {Validations(a)[i][4] : i \in
        {j \in 1..7 : ~(Validations(a)[j][2] <= Validations(a)[j][1].n
                        /\ Validations(a)[j][1].n <= Validations(a)[j][3])}}

AllNumbers(a) == \A k \in FeatureNames : a[k].t = "num"

\* C13: an initialized CropRecommendationService answers every numeric
\* input, in or out of the typical ranges, with a successful recommendation;
\* the values out of range are logged and nothing else.
C13_OutOfRangeOnlyLogged ==
    (/\ rec.st = "returned"
     /\ rec.svc = "agrisens"
     /\ crop_service.is_initialized
     /\ AllNumbers(rec.a))
        => /\ ~rec.exc
           /\ rec.result.success
           /\ rec.warnings = OutOfRange(rec.a)
           /\ Len(rec.top) >= 1
           /\ rec.result.recommended_crop = rec.top[1].crop

\* a pH of 11 and 200 of nitrogen were logged and the call returned a crop
C13_Witness ==
    /\ Recommended3
    /\ rec.svc = "agrisens"
    /\ rec.a.ph = Num(110)
    /\ rec.a.N = Num(200)
    /\ rec.warnings = {"pH", "Nitrogen", "Temperature"}
    /\ rec.result.success
\* ------------------------------------------------------------------------
\* Properties of the chatbot (SpecChat)
\* ------------------------------------------------------------------------
AdviceReturned == chat.st = "returned" /\ chat.via = "call"

\* C14: a question the classifier marks non-agricultural is answered by
\* get_agricultural_advice with the fixed redirect template and the
\* question_category "non_agricultural", and the OpenRouter service is
\* neither asked nor posted to for it, whatever the key, the context and
\* the state of the upstream are.
C14_NonAgriculturalRedirected ==
    (AdviceReturned /\ ~chat.related) =>
        /\ chat.result.response = [template |-> "redirect",
                                   question |-> Take(chat.question, 100)]
        /\ chat.result.question_category = "non_agricultural"
        /\ chat.asked = 0
        /\ chat.posts = 0

C14_Witness ==
    /\ AdviceReturned
    /\ chat.question = QuestionText.joke
    /\ chat.api_key = Str(KeyText.valid)
    /\ chat.upstream = [kind |-> "response", status |-> 200, body |-> "choices"]
    /\ chat.result.response.template = "redirect"
    /\ chat.posts = 0

\* C15: the deny-list decides first: a question whose lower-cased text
\* holds a deny-list pattern is classified non-agricultural, whatever strong
\* or contextual keywords it holds too; a question without deny-list
\* pattern that holds a strong keyword is classified agricultural.
C15_DenyListFirst ==
    AdviceReturned =>
        /\ AnyIn(non_ag_patterns, Lower(chat.question)) => ~chat.related
        /\ (/\ ~AnyIn(non_ag_patterns, Lower(chat.question))
            /\ AnyIn(strong_ag_keywords, Lower(chat.question))) => chat.related

C15_Witness ==
    /\ AdviceReturned
    /\ chat.question = QuestionText.joke_farming
    /\ AnyIn(strong_ag_keywords, Lower(chat.question))
    /\ AnyIn(non_ag_patterns, Lower(chat.question))
    /\ ~chat.related

RouteAnswered == chat.st = "returned" /\ chat.via = "route" /\ chat.question # <<>>

\* C16: POST /api/chat/agriculture answers a message classified
\* non-agricultural with success false and not as agriculture advice, and a
\* message classified agricultural with success true.
C16_RouteRejectsNonAgricultural ==
    RouteAnswered =>
        /\ chat.result.success = chat.related
        /\ ~chat.related => /\ chat.result.type # "agriculture_advice"
                            /\ ~chat.result.is_agriculture_related

\* is_initialized as the key decides it: present and starting with sk-or-v1-
KeyAccepted(api_key) == api_key.t = "str" /\ StartsWith(api_key.s, KeyText.prefix)

\* the post came back with 200 and a choice
UpstreamAnswered(upstream) ==
    upstream.kind = "response" /\ upstream.status = 200 /\ upstream.body = "choices"

RuleBased(result) ==
    /\ result.success
    /\ result.ai_service = "Agricultural Knowledge Base"
    /\ result.response.template \in
           {"yellowing_leaves", "pest_control", "fertilizer", "irrigation",
            "harvest", "disease", "general"}

\* what get_agricultural_advice owes an agricultural question
Preferred ==
    IF KeyAccepted(chat.api_key)
    THEN /\ chat.asked = 1
         /\ chat.posts = 1
         /\ IF UpstreamAnswered(chat.upstream)
            THEN /\ chat.result.success
                 /\ chat.result.ai_service = "OpenRouter (x-ai/grok-4-fast:free)"
                 /\ chat.result.response.template = "content"
            ELSE RuleBased(chat.result)
    ELSE /\ chat.asked = 0
         /\ chat.posts = 0
         /\ RuleBased(chat.result)

\* C17, as stated: every question classified agricultural is put to the
\* OpenRouter service first, once, when that service is initialized, and
\* its answer is returned when it reports success; without an initialized
\* service, or when the call fails in any way, the rule-based template is
\* returned with success true and ai_service "Agricultural Knowledge Base".
C17_OpenRouterThenRuleBased ==
    (AdviceReturned /\ chat.related) => Preferred

\* C17, amended: that holds when the context argument is None, a dict or
\* falsy; with a truthy context that is no dict _build_context raises, and
\* the call returns the error response with success false without asking
\* the OpenRouter service.
C17_ForDictContexts ==
    (AdviceReturned /\ chat.related) =>
        IF chat.input.truthy /\ chat.input.t # "dict"
        THEN /\ chat.result = _error_response(chat.question)
             /\ ~chat.result.success
             /\ chat.asked = 0
             /\ chat.posts = 0
        ELSE Preferred

C17_Witness ==
    /\ AdviceReturned
    /\ chat.question = QuestionText.yellow_leaves
    /\ chat.api_key = Str(KeyText.valid)
    /\ chat.upstream.kind = "timeout"
    /\ chat.input = DictContext([location |-> "Maharashtra", crops |-> "Tomato"])
    /\ chat.posts = 1
    /\ chat.result.ai_service = "Agricultural Knowledge Base"
    /\ chat.result.response.template = "yellowing_leaves"

\* ------------------------------------------------------------------------
\* Properties of the uploads (SpecCsv)
\* ------------------------------------------------------------------------
\* a record with every required field and a positive yield and field size
Complete(record) ==
    /\ record.field_name # <<>>
    /\ record.state # <<>>
    /\ record.district # <<>>
    /\ record.crop_type # <<>>
    /\ record.yield_per_hectare > 0
    /\ record.field_size_hectares > 0

\* the rows of a file that have a text in every required cell and a
\* positive number for yield and field size
CompleteRows(file) ==
    IF file.kind # "csv" \/ ~(AllColumns \subseteq file.columns) THEN {}
    ELSE {i \in 1..Len(file.rows) :
             /\ \A col \in AllColumns : file.rows[i][col] # CellText.empty
             /\ IsNumeric(file.rows[i].yield_per_hectare)
             /\ ParseNumber(file.rows[i].yield_per_hectare) > 0
             /\ IsNumeric(file.rows[i].field_size_hectares)
             /\ ParseNumber(file.rows[i].field_size_hectares) > 0}

Uploaded(u) == uploads[u].pc = "done" /\ uploads[u].status = 200

\* C18: a row that lacks a required field (field_name, state, district,
\* crop_type, yield_per_hectare, field_size_hectares) or whose yield or
\* field size is not positive is never inserted into crop_data and never
\* counted as valid.
C18_IncompleteRowsRejected ==
    /\ \A i \in 1..Len(crop_data) : Complete(crop_data[i])
    /\ \A u \in 1..MaxUploads :
          Uploaded(u) =>
              uploads[u].body.valid_rows <= Cardinality(CompleteRows(uploads[u].file))

\* the batch identifiers an upload has let out: on the records it inserted,
\* in its response, and on the upload_batches record it wrote
BatchIdsOf(u) ==
    {uploads[u].inserted[i].upload_batch_id : i \in 1..Len(uploads[u].inserted)}
    \cup {uploads[u].recorded[i].batch_id : i \in 1..Len(uploads[u].recorded)}
    \cup (IF Uploaded(u) THEN {uploads[u].body.upload_batch_id} ELSE {})

InsertedBy(u) == {uploads[u].inserted[i] : i \in 1..Len(uploads[u].inserted)}

\* C19: the records one upload inserts carry one upload_batch_id, which is
\* the upload_batch_id of its response and the batch_id of the
\* upload_batches record it writes, and no two uploads share an identifier.
C19_OneBatchIdPerUpload ==
    /\ \A u \in 1..MaxUploads : Cardinality(BatchIdsOf(u)) <= 1
    /\ \A u, v \in 1..MaxUploads : u # v => BatchIdsOf(u) \cap BatchIdsOf(v) = {}
    /\ \A i \in 1..Len(crop_data) :
          \E u \in 1..MaxUploads :
             /\ crop_data[i] \in InsertedBy(u)
             /\ BatchIdsOf(u) = {crop_data[i].upload_batch_id}
    /\ \A i \in 1..Len(upload_batches) :
          \E u \in 1..MaxUploads : uploads[u].recorded = <<upload_batches[i]>>

C19_Witness ==
    /\ Uploaded(1)
    /\ Uploaded(2)
    /\ Len(uploads[1].inserted) >= 2
    /\ Len(uploads[2].inserted) >= 1
    /\ Len(crop_data) = Len(uploads[1].inserted) + Len(uploads[2].inserted)
    /\ Len(upload_batches) = 2
    /\ uploads[1].body.upload_batch_id # uploads[2].body.upload_batch_id

\* ------------------------------------------------------------------------
\* Properties of the price requests (SpecPrices)
\* ------------------------------------------------------------------------
\* the upstream call failed: no connection, a timeout, a status that is not
\* 2xx, or a body that is no JSON
UpstreamFailed(upstream) ==
    \/ upstream.kind \in {"connect_error", "timeout"}
    \/ upstream.kind = "response" /\ upstream.status \notin 200..299
    \/ upstream.kind = "response" /\ upstream.body = "unparsable"

\* the request is authenticated and its limit and offset are integers
WellFormed ==
    /\ prices.st = "answered"
    /\ prices.user # None
    /\ prices.query.limit # QueryText.abc

Local(records) ==
    \A i \in 1..Len(records) : \E j \in 1..Len(fallback_data) : records[i] = fallback_data[j]

\* C20: GET /farmer/crop-prices answers an authenticated request with HTTP
\* 200 and locally computed sample records whenever the upstream call
\* fails: by a connection error, a timeout, a non-2xx status or an
\* unparsable body.
C20_UpstreamFailureNeverPropagates ==
    (WellFormed /\ UpstreamFailed(prices.upstream)) =>
        /\ prices.status = 200
        /\ prices.body.success
        /\ Local(prices.body.data.records)

\* every upload is either not made or answered
AllEnded == \A u \in 1..MaxUploads : uploads[u].pc \in {"idle", "done"}

\* C25: once the uploads have ended, whatever writes failed, every
\* upload_batch_id on a record of crop_data is the batch_id of a record of
\* upload_batches.
C25_EveryBatchIdRecorded ==
    AllEnded =>
        \A i \in 1..Len(crop_data) :
           \E j \in 1..Len(upload_batches) :
              upload_batches[j].batch_id = crop_data[i].upload_batch_id

\* no upload failed: each was answered with HTTP 200 or was not made
AllSucceeded ==
    \A u \in 1..MaxUploads :
       uploads[u].pc = "idle" \/ (uploads[u].pc = "done" /\ uploads[u].status = 200)

\* C27: every record an upload inserts passes CropDataResponse, and GET
\* /api/crop-data after uploads that all succeeded is answered with HTTP 200.
C27_StoredRecordsReadable ==
    /\ \A i \in 1..Len(crop_data) : ~CropDataResponse(crop_data[i]).exc
    /\ (crop_read.st = "answered" /\ AllSucceeded) => crop_read.status = 200

\* C28: the counts of an upload's response and of its upload_batches record
\* add up, valid_rows + invalid_rows = total_rows = the rows of the file,
\* valid_rows is 0 when a required column is missing, and the response
\* carries at most 10 error messages.
C28_CountsAddUp ==
    /\ \A u \in 1..MaxUploads :
          Uploaded(u) =>
              /\ uploads[u].body.total_rows = Len(uploads[u].file.rows)
              /\ uploads[u].body.valid_rows + uploads[u].body.invalid_rows
                     = uploads[u].body.total_rows
              /\ (AllColumns \ uploads[u].file.columns # {}) =>
                     uploads[u].body.valid_rows = 0
              /\ Len(uploads[u].body.errors) <= 10
    /\ \A j \in 1..Len(upload_batches) :
          upload_batches[j].valid_rows + upload_batches[j].invalid_rows
              = upload_batches[j].total_rows

\* an upload of more than 10 invalid rows and one without the district
\* column were answered
C28_Witness ==
    /\ \E u \in 1..MaxUploads :
          /\ Uploaded(u)
          /\ uploads[u].body.invalid_rows > 10
          /\ Len(uploads[u].body.errors) = 10
    /\ \E u \in 1..MaxUploads :
          /\ Uploaded(u)
          /\ "district" \notin uploads[u].file.columns
          /\ uploads[u].body.invalid_rows = 1
    /\ Len(upload_batches) = 2

\* an answer built from the sample records or from the fallback records
SampleOrFallback ==
    /\ prices.st = "answered"
    /\ prices.status = 200
    /\ prices.body.source \in {"Sample Data - AgMarkNet Integration", "Fallback Sample Data"}

\* C30: in an answer of GET /farmer/crop-prices built from the sample or
\* the fallback records, data.count is the number of records in
\* data.records, for every limit and offset that is not negative.
C30_CountIsNumberOfRecords ==
    SampleOrFallback => prices.body.data.count = Len(prices.body.data.records)

\* a match value or a score, in thousandths, between 0 and 1
InUnitInterval(x) == 0 <= x /\ x <= 1000

\* C29: every match value and every suitability score that
\* MLService.recommend_crop returns lies between 0 and 1, whatever the seven
\* readings are.
C29_ScoresInUnitInterval ==
    (rec.st = "returned" /\ rec.svc = "ml" /\ ~rec.exc) =>
        \A i \in 1..Len(rec.result.recommended_crops) :
           /\ InUnitInterval(rec.result.recommended_crops[i].suitability_score)
           /\ \A f \in DOMAIN rec.result.recommended_crops[i].factors :
                 InUnitInterval(rec.result.recommended_crops[i].factors[f])

\* the call of the real provider raised: a key of WeatherAPI.com is set and
\* one of its two requests failed or was answered with something else than
\* the documented body
ProviderRaised ==
    /\ Truthy(weather.api_key)
    /\ ~StartsWith(weather.api_key.s, WeatherText.AIza)
    /\ weather.upstream \in {"connect_error", "http_error", "unparsable", "no_current"}

\* the result has every field, with the values of the mock data of the draw
MockResult ==
    /\ ~weather.exc
    /\ DOMAIN weather.result =
           {"location", "temperature", "humidity", "rainfall", "wind_speed",
            "weather_condition", "agricultural_advice", "forecast", "data_source"}
    /\ weather.result.location = weather.location
    /\ weather.result.temperature = Num(weather.draw.temperature)
    /\ weather.result.humidity = Num(weather.draw.humidity)
    /\ weather.result.rainfall = Num(weather.draw.rainfall)
    /\ weather.result.weather_condition = mock_conditions[weather.draw.condition]
    /\ Len(weather.result.forecast) = 7
    /\ Len(weather.result.agricultural_advice) >= 3
    /\ weather.result.data_source = "mock"

\* C21: without WEATHER_API_KEY, or when the call of the real provider
\* raises, get_agricultural_weather does not raise and returns a complete
\* result built from the mock data, with data_source "mock"; data_source is
\* "real_api" only with the values the real provider answered.
C21_MockWhenProviderUnavailable ==
    weather.st = "returned" =>
        /\ (~Truthy(weather.api_key) \/ ProviderRaised) => MockResult
        /\ (~weather.exc /\ weather.result.data_source = "real_api") =>
               /\ Truthy(weather.api_key)
               /\ weather.upstream = "ok"
               /\ weather.result.temperature = Num(281)
               /\ weather.result.weather_condition = "Mist"

\* a key is set, the provider could not be reached, and the call returned
C21_Witness ==
    /\ weather.st = "returned"
    /\ ProviderRaised
    /\ weather.upstream = "connect_error"
    /\ ~weather.exc
    /\ weather.result.data_source = "mock"

\* the value the endpoint reads as the message: message, or text where
\* message is not read or has nothing
MessageRead ==
    IF http.endpoint = "/api/chat/agriculture"
    THEN GetField(http.request, "message", Str(<<>>))
    ELSE IF http.endpoint = "/api/ai/chat" THEN MessageOrText(http.request)
    ELSE GetField(http.request, "text", Str(<<>>))

\* an unexpected fault inside the handler: the import of the chatbot
\* raised, or the message is a number, which has no strip()
InternalFault ==
    /\ http.st = "answered"
    /\ http.endpoint = "/farmer/chat" => http.user # None
    /\ http.import_fails \/ MessageRead.t = "num"

\* the envelope of the exception handlers
Envelope(status) ==
    /\ http.status = status
    /\ DOMAIN http.body = {"error", "message", "status_code"}
    /\ http.body.error = TRUE
    /\ http.body.status_code = status

\* C22: an unexpected fault inside a request handler is answered with HTTP
\* 500 and the envelope {error, message, status_code}, without the text of
\* the exception in the body.
C22_FaultsAnswered500 ==
    InternalFault =>
        /\ Envelope(500)
        /\ \A k \in DOMAIN http.body : http.body[k] # "str(e)"

\* the request is malformed: the message the endpoint reads is missing,
\* null, empty or blank
Malformed ==
    /\ http.st = "answered"
    /\ ~http.import_fails
    /\ http.endpoint = "/farmer/chat" => http.user # None
    /\ \/ MessageRead.t = "none"
       \/ MessageRead.t = "str" /\ Strip(MessageRead.s) = <<>>

\* C23: every chat endpoint answers a malformed request with HTTP 400 or
\* 422 and a structured error body, never with HTTP 200.
C23_MalformedRejected ==
    Malformed =>
        /\ http.status \in {400, 422}
        /\ "error" \in DOMAIN http.body

\* C24: in one process, over any sequence of calls of
\* predict_yield_optimized, the model file is read from disk at most once,
\* also when a load fails.
C24_ModelFileReadOnce ==
    predictor.st = "running" => predictor.reads <= 1

\* the handles the callers that returned have received
Handles ==
    {mongodb.callers[c].handle :
        c \in {b \in 1..MaxCallers : /\ mongodb.callers[b].pc = "done"
                                     /\ ~mongodb.callers[b].exc}}

\* C26: while no ping has failed, whatever the interleaving of the callers
\* of get_database, one client at most is created, the indexes are created
\* once at most, and the callers receive one and the same handle.
C26_ConnectedOnce ==
    ~mongodb.ping_failed =>
        /\ mongodb.created <= 1
        /\ mongodb.index_runs <= 1
        /\ Cardinality(Handles) <= 1

====
